---- MODULE Spec2Model ----
(***************************************************************************)
(* A model of dash_extensions/enrich.py: the identifier codec              *)
(* (_create_callback_id), the trigger filter (TriggerTransform), the       *)
(* group combiner (GroupTransform / _combine_callbacks) and the server     *)
(* side output cache (ServersideOutputTransform, _pack_outputs,            *)
(* _unpack_outputs, _get_cache_id, FileSystemStore).                       *)
(*                                                                         *)
(* Python strings are modelled as sequences of one-character strings, so   *)
(* that formatting, splitting, substring tests and JSON parsing are        *)
(* computed and not assumed.                                               *)
(***************************************************************************)
EXTENDS Integers, Sequences, FiniteSets, TLC

VARIABLES
    cRef1, cRef2,      \* codec: the two references handed to _create_callback_id
    cKey1, cKey2,      \* codec: the canonical keys computed for them
    cDone,             \* codec: TRUE once the keys have been computed
    tDecl,             \* trigger: the arguments given to DashProxy.callback
    tCb,               \* trigger: the callback record saved in self.callbacks
    tPc,               \* trigger: "declare", "apply", "invoke" or "done"
    tArgs,             \* trigger: the arguments the host passed to callback["f"]
    tInner,            \* trigger: the arguments the user's handler received
    gCallbacks,        \* group: self.callbacks, the declared bindings
    gPhys,             \* group: the list GroupTransform.apply returned
    gPc,               \* group: "apply", "invoke", "done" or "failed"
    gInv,              \* group: the invocation made and its result
    sCallbacks,        \* cache: self.callbacks, the declared bindings A and B
    sPhys,             \* cache: the list ServersideOutputTransform.apply returned
    sPc,               \* cache: "apply", "run", "failed" or "done"
    sFiles,            \* cache: the files of the FileSystemStore, by key
    sNow,              \* cache: the time
    sWorkers,          \* cache: the requests being served, one per worker
    sLog,              \* cache: the requests that have ended, in order
    sRead,             \* cache: the last read made of the backend on its own
    sExecs,            \* cache: how many times a user handler was executed
    sEvents,           \* cache: how many sets and expiries have happened
    sLastSet,          \* cache: by key, the value last set and how many sets
    sStarted,          \* cache: how many requests have begun
    sCall,             \* cache: the last call of an unwrapping handler on its own
    lTree,             \* layout: the tree the app holds or its function returns
    lMode,             \* layout: "static", "same" or "fresh"
    lTransforms,       \* layout: self.transforms
    lHiddenDivs,       \* layout: the ids of the objects in hidden_divs
    lRenders,          \* layout: how many times _layout_value has run
    lFirst,            \* layout: the tree the first render returned
    lLast,             \* layout: the tree the last render returned
    lPc                \* layout: "apply", "serve" or "done"

codecVars == <<cRef1, cRef2, cKey1, cKey2, cDone>>
triggerVars == <<tDecl, tCb, tPc, tArgs, tInner>>
groupVars == <<gCallbacks, gPhys, gPc, gInv>>

cacheVars == <<sCallbacks, sPhys, sPc, sFiles, sNow, sWorkers, sLog, sRead, sExecs,
               sEvents, sLastSet, sStarted, sCall>>

layoutVars == <<lTree, lMode, lTransforms, lHiddenDivs, lRenders, lFirst, lLast, lPc>>

vars == <<cRef1, cRef2, cKey1, cKey2, cDone, tDecl, tCb, tPc, tArgs, tInner,
          gCallbacks, gPhys, gPc, gInv, sCallbacks, sPhys, sPc, sFiles, sNow,
          sWorkers, sLog, sRead, sExecs, sEvents, sLastSet, sStarted, sCall,
          lTree, lMode, lTransforms, lHiddenDivs, lRenders, lFirst, lLast, lPc>>

(***************************************************************************)
(* Strings                                                                 *)
(***************************************************************************)

\* a + b for Python strings
Cat(a, b) == a \o b

\* sub in s (Python's substring test)
Contains(s, sub) ==
    \E i \in 0..(Len(s) - Len(sub)) : SubSeq(s, i + 1, i + Len(sub)) = sub

\* the position of the first "." of s, or 0
FirstDot(s) ==
    IF \E i \in 1..Len(s) : s[i] = "."
    THEN CHOOSE i \in 1..Len(s) : s[i] = "." /\ \A j \in 1..(i - 1) : s[j] # "."
    ELSE 0

\* s.split(".")[0]
SplitHead(s) == IF FirstDot(s) = 0 THEN s ELSE SubSeq(s, 1, FirstDot(s) - 1)

Digits == <<"0", "1", "2", "3", "4", "5", "6", "7", "8", "9">>

\* str(n) for a natural number n
RECURSIVE IntStr(_)
IntStr(n) == IF n < 10 THEN <<Digits[n + 1]>>
             ELSE Cat(IntStr(n \div 10), <<Digits[(n % 10) + 1]>>)

(***************************************************************************)
(* References: Output / Input / State / Trigger objects.                   *)
(* component_id is a string or a dict; a dict is the sequence of its       *)
(* (key, value) pairs in insertion order, keys distinct.  A value is a     *)
(* string, an int or one of the wildcards MATCH, ALL, ALLSMALLER.          *)
(***************************************************************************)

StrVal(s)   == [t |-> "str", s |-> s, n |-> 0]
IntVal(n)   == [t |-> "int", s |-> <<>>, n |-> n]
WildVal(w)  == [t |-> "wild", s |-> w, n |-> 0]

ALL        == WildVal(<<"A", "L", "L">>)
MATCH      == WildVal(<<"M", "A", "T", "C", "H">>)
ALLSMALLER == WildVal(<<"A", "L", "L", "S", "M", "A", "L", "L", "E", "R">>)

StrId(s)      == [kind |-> "str", s |-> s, items |-> <<>>]
DictId(items) == [kind |-> "dict", s |-> <<>>, items |-> items]

Ref(cid, prop) == [component_id |-> cid, component_property |-> prop]

\* the set of (key, value) pairs of a dict id
PairSet(cid) == {cid.items[i] : i \in 1..Len(cid.items)}

\* DashDependency.__eq__ / __hash__ for the references of the model: the same
\* property on the same component, whatever the insertion order of a dict id
SameRef(r1, r2) ==
    /\ r1.component_property = r2.component_property
    /\ r1.component_id.kind = r2.component_id.kind
    /\ r1.component_id.s = r2.component_id.s
    /\ PairSet(r1.component_id) = PairSet(r2.component_id)

\* _wildcard_mappings: ALL -> "<ALL>", MATCH -> "<MATCH>", ALLSMALLER -> "<ALLSMALLER>"
WildcardMapping(v) == Cat(<<"<">>, Cat(v.s, <<">">>))

\* _wildcard_values
WildcardValues == {WildcardMapping(ALL), WildcardMapping(MATCH), WildcardMapping(ALLSMALLER)}

\* json.dumps of a string without characters that need escaping
JsonStr(s) == Cat(<<"\"">>, Cat(s, <<"\"">>))

\* json.dumps of a dict value, after the wildcard substitution of line 127
JsonVal(v) == CASE v.t = "str"  -> JsonStr(v.s)
                [] v.t = "int"  -> IntStr(v.n)
                [] v.t = "wild" -> JsonStr(WildcardMapping(v))

\* json.dumps of a dict: pairs in insertion order, ", " and ": " separators
RECURSIVE JsonItems(_)
JsonItems(items) ==
    IF items = <<>> THEN <<>>
    ELSE LET p == Head(items)
             one == Cat(JsonStr(p.k), Cat(<<":", " ">>, JsonVal(p.v)))
         IN  IF Len(items) = 1 THEN one
             ELSE Cat(one, Cat(<<",", " ">>, JsonItems(Tail(items))))

JsonDumps(items) == Cat(<<"{">>, Cat(JsonItems(items), <<"}">>))

\* _create_callback_id
CreateCallbackId(item) ==
    LET cid == item.component_id
        s   == IF cid.kind = "dict" THEN JsonDumps(cid.items) ELSE cid.s
    IN  Cat(s, Cat(<<".">>, item.component_property))

(***************************************************************************)
(* json.loads, for the texts the combined handler parses: an object with   *)
(* string keys and string or int values, a bare int or a bare string;      *)
(* whitespace is allowed between tokens.  Anything else is a               *)
(* JSONDecodeError.                                                        *)
(***************************************************************************)

IsDigit(c) == \E d \in 1..Len(Digits) : Digits[d] = c

DigitValue(c) == (CHOOSE d \in 1..Len(Digits) : Digits[d] = c) - 1

\* the first position >= i of s that holds no blank (Len(s) + 1 if none)
RECURSIVE SkipWs(_, _)
SkipWs(s, i) == IF i <= Len(s) /\ s[i] = " " THEN SkipWs(s, i + 1) ELSE i

\* the position of the first quote at or after i, or 0
RECURSIVE FindQuote(_, _)
FindQuote(s, i) ==
    IF i > Len(s) THEN 0
    ELSE IF s[i] = "\"" THEN i ELSE FindQuote(s, i + 1)

\* the position after the run of digits that starts at i
RECURSIVE DigitsEnd(_, _)
DigitsEnd(s, i) == IF i <= Len(s) /\ IsDigit(s[i]) THEN DigitsEnd(s, i + 1) ELSE i

RECURSIVE DecimalValue(_)
DecimalValue(ds) ==
    IF ds = <<>> THEN 0
    ELSE 10 * DecimalValue(SubSeq(ds, 1, Len(ds) - 1)) + DigitValue(ds[Len(ds)])

JsonError == [t |-> "error", items |-> <<>>, v |-> IntVal(0), next |-> 0]

\* a scalar (string or int) read at position i: its value and the position after it
JsonScalar(s, i) ==
    IF i > Len(s) THEN JsonError
    ELSE IF s[i] = "\""
    THEN LET j == FindQuote(s, i + 1)
         IN  IF j = 0 THEN JsonError
             ELSE [t |-> "str", items |-> <<>>,
                   v |-> StrVal(SubSeq(s, i + 1, j - 1)), next |-> j + 1]
    ELSE IF IsDigit(s[i])
    THEN LET j == DigitsEnd(s, i)
         IN  IF s[i] = "0" /\ j > i + 1 THEN JsonError
             ELSE [t |-> "int", items |-> <<>>,
                   v |-> IntVal(DecimalValue(SubSeq(s, i, j - 1))), next |-> j]
    ELSE JsonError

\* the members of an object from position i (after "{" or ","), given the
\* pairs read so far: a key, a colon, a value, then "," or "}"
RECURSIVE JsonMembers(_, _, _)

JsonAfterValue(s, acc, e) ==
    IF e > Len(s) THEN JsonError
    ELSE IF s[e] = "," THEN JsonMembers(s, e + 1, acc)
    ELSE IF s[e] = "}"
    THEN [t |-> "dict", items |-> acc, v |-> IntVal(0), next |-> e + 1]
    ELSE JsonError

JsonValue(s, acc, k, v) ==
    IF v.t = "error" THEN JsonError
    ELSE JsonAfterValue(s, Append(acc, [k |-> k.v.s, v |-> v.v]), SkipWs(s, v.next))

JsonColon(s, acc, k, c) ==
    IF c > Len(s) \/ s[c] # ":" THEN JsonError
    ELSE JsonValue(s, acc, k, JsonScalar(s, SkipWs(s, c + 1)))

JsonKey(s, acc, k) ==
    IF k.t # "str" THEN JsonError ELSE JsonColon(s, acc, k, SkipWs(s, k.next))

JsonMembers(s, i, acc) == JsonKey(s, acc, JsonScalar(s, SkipWs(s, i)))

\* the text after "{" at position i: an empty object or its members
JsonObject(s, j) ==
    IF j <= Len(s) /\ s[j] = "}"
    THEN [t |-> "dict", items |-> <<>>, v |-> IntVal(0), next |-> j + 1]
    ELSE JsonMembers(s, j, <<>>)

\* a parsed value is the result if only whitespace follows it
JsonWhole(s, r) ==
    IF r.t = "error" THEN JsonError
    ELSE IF SkipWs(s, r.next) <= Len(s) THEN JsonError   \* extra data
    ELSE r

JsonStart(s, i) ==
    IF i > Len(s) THEN JsonError
    ELSE IF s[i] = "{" THEN JsonWhole(s, JsonObject(s, SkipWs(s, i + 1)))
    ELSE JsonWhole(s, JsonScalar(s, i))

\* json.loads(s)
JsonLoads(s) == JsonStart(s, SkipWs(s, 1))

\* the keys of a parsed dict
DictKeys(d) == {d.items[i].k : i \in 1..Len(d.items)}

\* d[key] of a parsed dict that has the key (a later pair of the text wins)
DictGet(d, key) ==
    d.items[CHOOSE i \in 1..Len(d.items) :
                /\ d.items[i].k = key
                /\ \A j \in (i + 1)..Len(d.items) : d.items[j].k # key].v

(***************************************************************************)
(* Declarations: DashProxy.callback                                        *)
(***************************************************************************)

\* an Output / ServersideOutput / Input / Trigger / State object
Dep(kind, cid, prop) ==
    [kind |-> kind, component_id |-> cid, component_property |-> prop]

\* isinstance(e, dd.Input): Trigger is a subclass of Input
IsInput(e) == e.kind \in {"Input", "Trigger"}
\* isinstance(e, dd.State)
IsState(e) == e.kind = "State"
\* isinstance(e, dd.Output): EnrichedOutput and ServersideOutput are
\* subclasses of Output
IsOutput(e) == e.kind \in {"Output", "EnrichedOutput", "ServersideOutput"}
\* isinstance(e, ServersideOutput)
IsServersideOutput(e) == e.kind = "ServersideOutput"
\* isinstance(e, Trigger)
IsTrigger(e) == e.kind = "Trigger"

\* line 56: any([component_id[k] in [dd.ALLSMALLER, dd.ALL] for k in component_id])
WildcardOutput(e) ==
    /\ IsOutput(e)
    /\ e.component_id.kind = "dict"
    /\ \E i \in 1..Len(e.component_id.items) :
           e.component_id.items[i].v \in {ALLSMALLER, ALL}

\* a user handler, as DashProxy.callback's wrapper stores it in callback["f"]:
\* name is its __name__, args_filter the mask filter_args closed over
\* (wrapped is FALSE for a handler that was never wrapped)
\* closure holds what _combine_callbacks' wrapper closed over (<<>> for a
\* user handler); unpack is the list _unpack_outputs closed over (<<>> when
\* the handler is not wrapped by it); packed says that _pack_outputs wrapped
\* the handler and memoize is the value it closed over.  functools.wraps
\* keeps the name through every wrapping.
Handler(name) ==
    [name |-> name, wrapped |-> FALSE, args_filter |-> <<>>, closure |-> <<>>,
     unpack |-> <<>>, packed |-> FALSE, memoize |-> FALSE]

\* DashProxy.callback: the callback record appended to self.callbacks
DashCallback(args, kwargs, f) ==
    LET outs == SelectSeq(args, IsOutput)
        wild == \E i \in 1..Len(args) : WildcardOutput(args[i])
    IN  [Output       |-> outs,
         Input        |-> SelectSeq(args, IsInput),
         State        |-> SelectSeq(args, IsState),
         kwargs       |-> kwargs,
         sorted_args  |-> args,
         multi_output |-> (wild \/ Len(outs) > 1),
         f            |-> f]

(***************************************************************************)
(* Trigger transform                                                       *)
(***************************************************************************)

\* trigger_filter
TriggerFilter(args) ==
    LET inputs_args == SelectSeq(args, LAMBDA e : IsInput(e) \/ IsState(e))
    IN  [j \in 1..Len(inputs_args) |-> IsTrigger(inputs_args[j])]

\* filter_args.decorated_function: the arguments passed on to f
RECURSIVE FilterFrom(_, _, _)
FilterFrom(args_filter, args, j) ==
    IF j > Len(args) THEN <<>>
    ELSE IF ~args_filter[j]
         THEN Cat(<<args[j]>>, FilterFrom(args_filter, args, j + 1))
         ELSE FilterFrom(args_filter, args, j + 1)

\* a faulty filter_args that keeps the masked arguments and drops the others
FilterArgsMutant(args_filter, args) ==
    FilterFrom([j \in 1..Len(args_filter) |-> ~args_filter[j]], args, 1)

FilterArgs(args_filter, args) == FilterFrom(args_filter, args, 1)

\* TriggerTransform.apply, for one callback
TriggerTransformApply(callback) ==
    LET is_trigger == TriggerFilter(callback.sorted_args)
    IN  IF ~(\E j \in 1..Len(is_trigger) : is_trigger[j])
        THEN callback
        ELSE [callback EXCEPT !.f = [@ EXCEPT !.wrapped = TRUE,
                                              !.args_filter = is_trigger]]

\* what the user's handler receives when callback["f"] is called with args
InnerArgs(f, args) == IF f.wrapped THEN FilterArgs(f.args_filter, args) ELSE args

(***************************************************************************)
(* Group transform                                                         *)
(***************************************************************************)

\* callback[key] for key one of dd.Output, dd.Input, dd.State
Get(callback, key) ==
    CASE key = "Output" -> callback.Output
      [] key = "Input"  -> callback.Input
      [] key = "State"  -> callback.State

\* more_itertools.unique_everseen: the first occurrence of every element
RECURSIVE UniqueEverseen(_)
UniqueEverseen(seq) ==
    IF seq = <<>> THEN <<>>
    ELSE LET init == UniqueEverseen(SubSeq(seq, 1, Len(seq) - 1))
             last == seq[Len(seq)]
         IN  IF \E i \in 1..Len(init) : SameRef(init[i], last)
             THEN init ELSE Append(init, last)

\* list.index, 1-based; 0 stands for the ValueError of a missing element
Index(seq, x) ==
    IF \E i \in 1..Len(seq) : seq[i] = x
    THEN CHOOSE i \in 1..Len(seq) : seq[i] = x /\ \A j \in 1..(i - 1) : seq[j] # x
    ELSE 0

\* the concatenation of callback[key] over the callbacks (lines 349-351)
RECURSIVE Extend(_, _)
Extend(callbacks, key) ==
    IF callbacks = <<>> THEN <<>>
    ELSE Cat(Extend(SubSeq(callbacks, 1, Len(callbacks) - 1), key),
             Get(callbacks[Len(callbacks)], key))

\* _prep_props
PrepProps(callbacks, key) ==
    LET all        == UniqueEverseen(Extend(callbacks, key))
        props      == [i \in 1..Len(all) |-> CreateCallbackId(all[i])]
        prop_lists == [c \in 1..Len(callbacks) |->
                          [i \in 1..Len(Get(callbacks[c], key)) |->
                              CreateCallbackId(Get(callbacks[c], key)[i])]]
        mappings   == [c \in 1..Len(callbacks) |->
                          [i \in 1..Len(prop_lists[c]) |-> Index(props, prop_lists[c][i])]]
    IN  [all |-> all, props |-> props, prop_lists |-> prop_lists, mappings |-> mappings]

\* props.index raised ValueError for some member reference
PrepFailed(prep) ==
    \E c \in 1..Len(prep.mappings) : \E i \in 1..Len(prep.mappings[c]) :
        prep.mappings[c][i] = 0

\* kwargs.pop("group", None): the options without the group key
PopGroup(kwargs) == [kwargs EXCEPT !.group = ""]

\* _combine_callbacks: the combined callback record; callbacks are the members
\* (their group key already popped)
CombineCallbacks(callbacks) ==
    LET ip == PrepProps(callbacks, "Input")
        sp == PrepProps(callbacks, "State")
        op == PrepProps(callbacks, "Output")
        multi_output ==
            \/ \E c \in 1..Len(callbacks) : callbacks[c].multi_output
            \/ Len(UniqueEverseen(Extend(callbacks, "Output"))) > 1
        closure == [callbacks        |-> callbacks,
                    inputs           |-> ip.all,
                    outputs          |-> op.all,
                    input_prop_lists |-> ip.prop_lists,
                    input_mappings   |-> ip.mappings,
                    state_mappings   |-> sp.mappings,
                    output_mappings  |-> op.mappings,
                    multi_output     |-> multi_output]
    IN  [Output       |-> op.all,
         Input        |-> ip.all,
         State        |-> sp.all,
         kwargs       |-> callbacks[1].kwargs,
         sorted_args  |-> Cat(op.all, Cat(ip.all, sp.all)),
         multi_output |-> multi_output,
         f            |-> [Handler(<<"w", "r", "a", "p", "p", "e", "r">>)
                              EXCEPT !.closure = <<closure>>]]

\* _combine_callbacks raises the ValueError of props.index
CombineFails(callbacks) ==
    \/ PrepFailed(PrepProps(callbacks, "Input"))
    \/ PrepFailed(PrepProps(callbacks, "State"))
    \/ PrepFailed(PrepProps(callbacks, "Output"))

\* the group keys of the callbacks in order of first appearance (the dict
\* groups of GroupTransform.apply; a falsy key is no group)
GroupKeys(callbacks) ==
    LET RECURSIVE Keys(_)
        Keys(n) ==
            IF n = 0 THEN <<>>
            ELSE LET init == Keys(n - 1)
                     key  == callbacks[n].kwargs.group
                 IN  IF key = "" \/ \E i \in 1..Len(init) : init[i] = key
                     THEN init ELSE Append(init, key)
    IN  Keys(Len(callbacks))

\* [callbacks[i] for i in groups[key]], each with its group key popped
GroupMembers(callbacks, key) ==
    LET popped == [i \in 1..Len(callbacks) |->
                      [callbacks[i] EXCEPT !.kwargs = PopGroup(@)]]
    IN  SelectSeq([i \in 1..Len(callbacks) |-> [cb |-> popped[i], key |-> callbacks[i].kwargs.group]],
                  LAMBDA e : e.key = key)

MembersOf(callbacks, key) ==
    LET ms == GroupMembers(callbacks, key)
    IN  [i \in 1..Len(ms) |-> ms[i].cb]

\* GroupTransform.apply raises (the ValueError of _combine_callbacks)
GroupTransformFails(callbacks) ==
    \E g \in 1..Len(GroupKeys(callbacks)) :
        CombineFails(MembersOf(callbacks, GroupKeys(callbacks)[g]))

\* a faulty GroupTransform.apply that combines each grouped callback on its own
GroupTransformApplyMutant(callbacks) ==
    LET grouped == SelectSeq(callbacks, LAMBDA cb : cb.kwargs.group # "")
    IN  Cat(SelectSeq(callbacks, LAMBDA cb : cb.kwargs.group = ""),
            [g \in 1..Len(grouped) |->
                CombineCallbacks(<<[grouped[g] EXCEPT !.kwargs = PopGroup(@)]>>)])

\* GroupTransform.apply: the ungrouped callbacks, then one combined callback
\* per group
GroupTransformApply(callbacks) ==
    LET keys == GroupKeys(callbacks)
    IN  Cat(SelectSeq(callbacks, LAMBDA cb : cb.kwargs.group = ""),
            [g \in 1..Len(keys) |-> CombineCallbacks(MembersOf(callbacks, keys[g]))])

(***************************************************************************)
(* The combined handler: _combine_callbacks.wrapper                        *)
(***************************************************************************)

\* dash.no_update, and the value member `name` returns for its j-th output
NoUpdate == [by |-> "no_update", k |-> 0]
OutVal(name, j) == [by |-> name, k |-> j]

\* any([wildcard_value in item for wildcard_value in _wildcard_values])
HasWildcardValue(item) == \E w \in WildcardValues : Contains(item, w)

\* x in _wildcard_values, for a parsed JSON value x
IsWildcardValue(x) == x.t = "str" /\ x.s \in WildcardValues

\* the keys `for key in props` visits: the keys of a dict, the characters of a string
IterKeys(props) ==
    IF props.t = "dict" THEN [i \in 1..Len(props.items) |-> props.items[i].k]
    ELSE [i \in 1..Len(props.v.s) |-> <<props.v.s[i]>>]

\* lines 315-318, from the i-th key on: "True" / "False" for prop_match, or
\* the name of the exception raised
RECURSIVE PropMatch(_, _, _, _)

PropMatchKey(props, item_props, i, prop_match, key) ==
    IF item_props.t # "dict" THEN "TypeError"
    ELSE IF key \notin DictKeys(item_props) THEN "KeyError"
    ELSE IF IsWildcardValue(DictGet(item_props, key))
    THEN PropMatch(props, item_props, i + 1, prop_match)
    ELSE IF ~prop_match THEN PropMatch(props, item_props, i + 1, FALSE)
    ELSE IF props.t # "dict" THEN "TypeError"
    ELSE PropMatch(props, item_props, i + 1,
                   DictGet(item_props, key) = DictGet(props, key))

PropMatch(props, item_props, i, prop_match) ==
    IF i > Len(IterKeys(props)) THEN (IF prop_match THEN "True" ELSE "False")
    ELSE PropMatchKey(props, item_props, i, prop_match, IterKeys(props)[i])

\* lines 320-322: the outcome of the prop_match loop
PropMatchOutcome(m) ==
    CASE m = "True"  -> "match"
      [] m = "False" -> "nomatch"
      [] OTHER       -> m

\* lines 313-322, with both texts parsed
WildcardMatch(props, item_props) ==
    IF props.t = "error" \/ item_props.t = "error" THEN "nomatch"
    ELSE IF props.t = "int" THEN "TypeError"
    ELSE PropMatchOutcome(PropMatch(props, item_props, 1, TRUE))

\* lines 307-324 for one item of a member's input list: "match", "nomatch"
\* or the name of the exception that leaves the wrapper
ItemMatch(item, prop_id) ==
    IF item = prop_id THEN "match"
    ELSE IF ~HasWildcardValue(item) THEN "nomatch"
    ELSE WildcardMatch(JsonLoads(SplitHead(prop_id)), JsonLoads(SplitHead(item)))

\* a faulty matching that tries one item of a member only
MemberMatchMutant(entry, prop_id, j) ==
    IF j > Len(entry) THEN "nomatch" ELSE ItemMatch(entry[j], prop_id)

\* lines 304-326 for one member: its items are tried in order
RECURSIVE MemberMatch(_, _, _)

MemberMatchNext(entry, prop_id, j, m) ==
    IF m = "nomatch" THEN MemberMatch(entry, prop_id, j + 1) ELSE m

MemberMatch(entry, prop_id, j) ==
    IF j > Len(entry) THEN "nomatch"
    ELSE MemberMatchNext(entry, prop_id, j, ItemMatch(entry[j], prop_id))

\* what a member's handler returns when it does not raise: one value per
\* declared output, a list if the member is multi_output
HandlerReturn(callback) ==
    [j \in 1..Len(callback.Output) |-> OutVal(callback.f.name, j)]

\* a faulty scatter that writes the k-th value to slot k
ScatterMutant(output_values, mapping, outputs_i, j) ==
    [k \in 1..Len(output_values) |->
        IF k <= Len(outputs_i) THEN outputs_i[k] ELSE output_values[k]]

\* lines 334-335: the member's values scattered into output_values
RECURSIVE Scatter(_, _, _, _)
Scatter(output_values, mapping, outputs_i, j) ==
    IF j > Len(outputs_i) THEN output_values
    ELSE Scatter([output_values EXCEPT ![mapping[j]] = outputs_i[j]],
                 mapping, outputs_i, j + 1)

\* lines 302-337 from member i on.  st holds output_values, the calls made
\* so far and the exception raised by the matching, if any.  behaviour[i] is
\* what member i's handler does with its arguments: "value" or "PreventUpdate"
RECURSIVE WrapperLoop(_, _, _, _, _, _)

\* a faulty trigger of member i, in which a member's PreventUpdate throws
\* away the values scattered so far
TriggerMemberMutant(c, local_inputs, local_states, behaviour, i, st) ==
    LET inputs_i == [j \in 1..Len(c.input_mappings[i]) |->
                         local_inputs[c.input_mappings[i][j]]]
        states_i == [j \in 1..Len(c.state_mappings[i]) |->
                         local_states[c.state_mappings[i][j]]]
        call     == [member |-> i,
                     args   |-> Cat(inputs_i, states_i),
                     inner  |-> InnerArgs(c.callbacks[i].f, Cat(inputs_i, states_i))]
        outputs_i == IF c.callbacks[i].multi_output
                     THEN HandlerReturn(c.callbacks[i])
                     ELSE <<HandlerReturn(c.callbacks[i])[1]>>
    IN  IF behaviour[i] = "PreventUpdate"
        THEN [st EXCEPT !.calls = Append(@, call),
                        !.output_values = [j \in 1..Len(@) |-> NoUpdate]]
        ELSE [st EXCEPT !.calls = Append(@, call),
                        !.output_values = Scatter(@, c.output_mappings[i], outputs_i, 1)]

\* lines 328-337: member i is triggered
TriggerMember(c, local_inputs, local_states, behaviour, i, st) ==
    LET inputs_i == [j \in 1..Len(c.input_mappings[i]) |->
                         local_inputs[c.input_mappings[i][j]]]
        states_i == [j \in 1..Len(c.state_mappings[i]) |->
                         local_states[c.state_mappings[i][j]]]
        call     == [member |-> i,
                     args   |-> Cat(inputs_i, states_i),
                     inner  |-> InnerArgs(c.callbacks[i].f, Cat(inputs_i, states_i))]
        \* line 332: a member that is not multi_output returns one value
        outputs_i == IF c.callbacks[i].multi_output
                     THEN HandlerReturn(c.callbacks[i])
                     ELSE <<HandlerReturn(c.callbacks[i])[1]>>
    IN  IF behaviour[i] = "PreventUpdate"
        THEN [st EXCEPT !.calls = Append(@, call)]
        ELSE [st EXCEPT !.calls = Append(@, call),
                        !.output_values = Scatter(@, c.output_mappings[i], outputs_i, 1)]

WrapperStep(c, local_inputs, local_states, prop_id, behaviour, loop, m) ==
    IF m = "nomatch"
    THEN WrapperLoop(c, local_inputs, local_states, prop_id, behaviour,
                     [i |-> loop.i + 1, st |-> loop.st])
    ELSE IF m # "match" THEN [loop.st EXCEPT !.raised = m]
    ELSE WrapperLoop(c, local_inputs, local_states, prop_id, behaviour,
                     [i  |-> loop.i + 1,
                      st |-> TriggerMember(c, local_inputs, local_states, behaviour,
                                           loop.i, loop.st)])

WrapperLoop(c, local_inputs, local_states, prop_id, behaviour, loop) ==
    IF loop.i > Len(c.input_prop_lists) THEN loop.st
    ELSE WrapperStep(c, local_inputs, local_states, prop_id, behaviour, loop,
                     MemberMatch(c.input_prop_lists[loop.i], prop_id, 1))

\* the result of one call of a handler: outcome is "return" or the name of
\* the exception raised; value is the returned list (a single value is a
\* list of one); calls are the member handlers invoked, in order
NoResult == [outcome |-> "none", value |-> <<>>, calls |-> <<>>]

\* lines 338-342: the wrapper's result once the loop has ended in st
WrapperEnd(c, st) ==
    IF st.raised # ""
    THEN [outcome |-> st.raised, value |-> <<>>, calls |-> st.calls]
    ELSE IF \A j \in 1..Len(st.output_values) : st.output_values[j] = NoUpdate
    THEN [outcome |-> "PreventUpdate", value |-> <<>>, calls |-> st.calls]
    ELSE [outcome |-> "return",
          value   |-> IF c.multi_output THEN st.output_values
                      ELSE <<st.output_values[1]>>,
          calls   |-> st.calls]

\* _combine_callbacks.wrapper(*args), with dash.callback_context.triggered
\* the list `triggered` of prop_ids
Wrapper(c, args, triggered, behaviour) ==
    IF Len(triggered) = 0
    THEN [outcome |-> "PreventUpdate", value |-> <<>>, calls |-> <<>>]
    ELSE WrapperEnd(c,
            WrapperLoop(c, SubSeq(args, 1, Len(c.inputs)),
                        SubSeq(args, Len(c.inputs) + 1, Len(args)),
                        triggered[1], behaviour,
                        [i  |-> 1,
                         st |-> [output_values |-> [j \in 1..Len(c.outputs) |-> NoUpdate],
                                 calls |-> <<>>, raised |-> ""]]))

(***************************************************************************)
(* Specification SpecTrigger: one binding is declared, TriggerTransform    *)
(* is applied, the host registers it (lines 73-80: inputs, then state)     *)
(* and calls the handler once.                                             *)
(***************************************************************************)

MaxDeps == 3

DepKinds == {"Output", "Input", "Trigger", "State"}

DepNames == <<"a", "b", "c", "d", "e", "f", "g", "h">>

\* what a dict identifier of an output may hold under its key "t"
PatternValues == {MATCH, ALL, ALLSMALLER, StrVal(<<"a">>)}

\* a dependency of any kind on the component named after its position, or an
\* output on a dict identifier
DepChoices ==
    {[kind |-> kind, dict |-> FALSE, v |-> StrVal(<<>>)] : kind \in DepKinds}
    \cup {[kind |-> "Output", dict |-> TRUE, v |-> v] : v \in PatternValues}

DepOf(p, choice) ==
    Dep(choice.kind,
        IF choice.dict THEN DictId(<<[k |-> <<"t">>, v |-> choice.v]>>)
        ELSE StrId(<<DepNames[p]>>),
        <<"v">>)

\* the declared argument lists
Declarations ==
    UNION {{[p \in 1..n |-> DepOf(p, choice[p])] :
               choice \in [1..n -> DepChoices]} : n \in 1..MaxDeps}

NoKwargs == [group |-> "", memoize |-> FALSE]

NoCallback == DashCallback(<<>>, NoKwargs, Handler("none"))

\* the current value of a dependency, as the host passes it: a value that
\* names the component and property it was read from
ValueOf(e) == [of |-> e.component_id, prop |-> e.component_property]

\* the arguments of a registered callback: the values of callback[Input], then
\* those of callback[State] (_register_callbacks, lines 76-80)
HostArgs(callback) ==
    Cat([j \in 1..Len(callback.Input) |-> ValueOf(callback.Input[j])],
        [j \in 1..Len(callback.State) |-> ValueOf(callback.State[j])])

TDeclare ==
    /\ tPc = "declare"
    /\ tCb' = DashCallback(tDecl, NoKwargs, Handler("h"))
    /\ tPc' = "apply"
    /\ UNCHANGED <<tDecl, tArgs, tInner>>
    /\ UNCHANGED <<codecVars, groupVars, cacheVars, layoutVars>>

TApply ==
    /\ tPc = "apply"
    /\ tCb' = TriggerTransformApply(tCb)
    /\ tPc' = "invoke"
    /\ UNCHANGED <<tDecl, tArgs, tInner>>
    /\ UNCHANGED <<codecVars, groupVars, cacheVars, layoutVars>>

TInvoke ==
    /\ tPc = "invoke"
    /\ tArgs' = HostArgs(tCb)
    /\ tInner' = InnerArgs(tCb.f, HostArgs(tCb))
    /\ tPc' = "done"
    /\ UNCHANGED <<tDecl, tCb>>
    /\ UNCHANGED <<codecVars, groupVars, cacheVars, layoutVars>>

TriggerNext == TDeclare \/ TApply \/ TInvoke

\* the number of trigger-flagged entries of the declaration
NumTriggers == Cardinality({p \in 1..Len(tDecl) : IsTrigger(tDecl[p])})
\* the number of inputs and state of the declaration
NumInputsState == Cardinality({p \in 1..Len(tDecl) : IsInput(tDecl[p]) \/ IsState(tDecl[p])})

\* the i-th smallest member of a set of positions
Nth(S, i) == CHOOSE j \in S : Cardinality({x \in S : x < j}) = i - 1

\* inner is args restricted to the positions keep, in their original order
IsSelection(inner, args, keep) ==
    /\ Len(inner) = Cardinality(keep)
    /\ \A i \in 1..Len(inner) : inner[i] = args[Nth(keep, i)]

\* C6: with k trigger-flagged entries among n inputs and state, the handler
\* is called with n arguments and the inner handler with exactly n-k, the
\* arguments at the non-masked positions in their original order; with k = 0
\* the handler is not wrapped.
C6_TriggerArity ==
    tPc = "done" =>
        /\ Len(tArgs) = NumInputsState
        /\ Len(tInner) = NumInputsState - NumTriggers
        /\ IF NumTriggers = 0
           THEN ~tCb.f.wrapped /\ tInner = tArgs
           ELSE /\ tCb.f.wrapped
                /\ Len(tCb.f.args_filter) = NumInputsState
                /\ IsSelection(tInner, tArgs,
                                {j \in 1..Len(tArgs) : ~tCb.f.args_filter[j]})

\* C6 witness: a binding with a trigger and a kept argument has been invoked
C6_Witness ==
    /\ tPc = "done"
    /\ NumTriggers >= 1
    /\ Len(tInner) >= 1
    /\ Len(tInner) < Len(tArgs)

\* the values of the dependencies in deps that are not trigger-flagged
RECURSIVE KeptValues(_)
KeptValues(deps) ==
    IF deps = <<>> THEN <<>>
    ELSE Cat(IF IsTrigger(deps[1]) THEN <<>> ELSE <<ValueOf(deps[1])>>,
             KeptValues(Tail(deps)))

\* C14: whatever the declaration order of Input, Trigger and State, the
\* inner handler receives exactly the values of the inputs that are not
\* trigger-flagged, then those of all the state: the arguments removed are
\* the values of the trigger-flagged inputs and no others
C14_MaskAligned ==
    tPc = "done" => tInner = KeptValues(Cat(tCb.Input, tCb.State))

\* an output reference with an attribute in one of the wildcard match modes
UsesWildcard(e) ==
    /\ IsOutput(e)
    /\ e.component_id.kind = "dict"
    /\ \E i \in 1..Len(e.component_id.items) :
           e.component_id.items[i].v \in {MATCH, ALL, ALLSMALLER}

\* the number of outputs of the declaration
NumOutputs == Cardinality({p \in 1..Len(tDecl) : IsOutput(tDecl[p])})

\* C17: the multi_output flag of a declared binding is true exactly when
\* more than one output is declared or some declared output has an
\* attribute that is MATCH, ALL or ALLSMALLER
C17_MultiOutputFlag ==
    tPc # "declare" =>
        (tCb.multi_output
            <=> (NumOutputs > 1 \/ \E p \in 1..Len(tDecl) : UsesWildcard(tDecl[p])))

(***************************************************************************)
(* Specification SpecCodec: _create_callback_id applied to two references  *)
(***************************************************************************)

MaxInt == 1

AttrNames == {<<"t">>, <<"i">>}

\* the values a dict id may hold; "<ALL>" is an ordinary string a user may choose
AttrValues == {StrVal(<<"a">>), StrVal(<<"<", "A", "L", "L", ">">>), ALL, MATCH}
                  \cup {IntVal(n) : n \in 1..MaxInt}

Pair(k, v) == [k |-> k, v |-> v]

\* every dict over AttrNames, in every insertion order
DictIds ==
    {DictId(<<Pair(k, v)>>) : k \in AttrNames, v \in AttrValues}
    \cup {DictId(<<Pair(ks[1], v1), Pair(ks[2], v2)>>) :
              ks \in {q \in AttrNames \X AttrNames : q[1] # q[2]},
              v1 \in AttrValues, v2 \in AttrValues}

StringIds == {StrId(<<"a">>), StrId(<<"b">>)}

PropNames == {<<"v">>, <<"c">>}

CodecRefs == {Ref(cid, p) : cid \in DictIds \cup StringIds, p \in PropNames}

Canonicalize ==
    /\ ~cDone
    /\ cKey1' = CreateCallbackId(cRef1)
    /\ cKey2' = CreateCallbackId(cRef2)
    /\ cDone' = TRUE
    /\ UNCHANGED <<cRef1, cRef2>>
    /\ UNCHANGED <<triggerVars, groupVars, cacheVars, layoutVars>>

CodecNext == Canonicalize

\* C7: references built from the same attribute/value pairs in a different
\* insertion order, with the same property, receive the same canonical key.
C7_PermutationInvariant ==
    (cDone /\ SameRef(cRef1, cRef2)) => cKey1 = cKey2

\* C8: structurally distinct references (different location or property,
\* a wildcard against a concrete value included) never receive the same
\* canonical key.
C8_Injective ==
    (cDone /\ ~SameRef(cRef1, cRef2)) => cKey1 # cKey2

(***************************************************************************)
(* Specification SpecGroup: bindings are declared with and without a       *)
(* group key, GroupTransform.apply is applied, and the host calls the      *)
(* handler of one of the resulting bindings once.                          *)
(***************************************************************************)

MaxBindings == 2

InX  == Dep("Input", StrId(<<"a">>), <<"v">>)
InY  == Dep("Input", StrId(<<"b">>), <<"v">>)
\* a pattern reference {"t": ALL} and a concrete dict reference {"t": "a"}
InW  == Dep("Input", DictId(<<Pair(<<"t">>, ALL)>>), <<"v">>)
InXd == Dep("Input", DictId(<<Pair(<<"t">>, StrVal(<<"a">>))>>), <<"v">>)
\* a concrete dict reference whose value is the string "<ALL>"
InWs == Dep("Input", DictId(<<Pair(<<"t">>, StrVal(<<"<", "A", "L", "L", ">">>))>>), <<"v">>)
StS  == Dep("State", StrId(<<"s">>), <<"v">>)
OutO == Dep("Output", StrId(<<"o">>), <<"c">>)
OutP == Dep("Output", StrId(<<"p">>), <<"c">>)

\* the argument lists the bindings are declared with
GroupShapes ==
    { <<OutO, InX>>,
      <<OutO, InY, StS>>,
      <<OutP, InY>>,
      <<OutP, InW>>,
      <<OutO, InXd>>,
      <<OutO, InWs>>,
      <<OutO, OutP, InX, InY, StS>> }

GroupKeyChoices == {"", "g1", "g2"}

HandlerNames == <<"A", "B", "C", "D", "E">>

\* the lists self.callbacks may hold: the n-th declared binding has handler n
DeclaredLists ==
    UNION {{[i \in 1..n |-> DashCallback(shape[i], [group |-> key[i], memoize |-> FALSE],
                                          Handler(HandlerNames[i]))] :
               shape \in [1..n -> GroupShapes], key \in [1..n -> GroupKeyChoices]} :
           n \in 1..MaxBindings}

\* the prop_ids dash.callback_context.triggered may name: the canonical keys
\* of the inputs, an unrelated reference, a pattern instance as the host
\* writes it (compact), a component called "1", and the "." of no trigger
PropIds ==
    { CreateCallbackId(InX), CreateCallbackId(InY), CreateCallbackId(InW),
      CreateCallbackId(InXd),
      <<"z", ".", "v">>,
      <<"{", "\"", "t", "\"", ":", "\"", "b", "\"", "}", ".", "v">>,
      <<"{", "\"", "u", "\"", ":", "\"", "b", "\"", "}", ".", "v">>,
      <<"1", ".", "v">>,
      <<".">> }

TriggeredLists == {<<>>} \cup {<<pid>> : pid \in PropIds}

Behaviours == {"value", "PreventUpdate"}

NoInvocation ==
    [b |-> 0, triggered |-> <<>>, behaviour |-> <<>>, args |-> <<>>, result |-> NoResult]

\* _resolve_callbacks with transforms = [GroupTransform()]
GApply ==
    /\ gPc = "apply"
    /\ IF GroupTransformFails(gCallbacks)
       THEN gPhys' = <<>> /\ gPc' = "failed"
       ELSE gPhys' = GroupTransformApply(gCallbacks) /\ gPc' = "invoke"
    /\ UNCHANGED <<gCallbacks, gInv>>
    /\ UNCHANGED <<codecVars, triggerVars, cacheVars, layoutVars>>

\* the members behind a physical binding: those of the combined handler, or
\* the binding itself
MembersBehind(callback) ==
    IF callback.f.closure = <<>> THEN <<callback>> ELSE callback.f.closure[1].callbacks

\* a call of a handler that is not combined
PlainCall(callback, args, behaviour) ==
    LET call == <<[member |-> 1, args |-> args, inner |-> InnerArgs(callback.f, args)]>>
    IN  IF behaviour[1] = "PreventUpdate"
        THEN [outcome |-> "PreventUpdate", value |-> <<>>, calls |-> call]
        ELSE [outcome |-> "return", value |-> HandlerReturn(callback), calls |-> call]

\* callback["f"](*args) as the host calls it
CallHandler(callback, args, triggered, behaviour) ==
    IF callback.f.closure = <<>>
    THEN PlainCall(callback, args, behaviour)
    ELSE Wrapper(callback.f.closure[1], args, triggered, behaviour)

\* the host calls the handler of physical binding b
GInvoke(b, triggered, behaviour) ==
    /\ gPc = "invoke"
    /\ gInv' = [b |-> b, triggered |-> triggered, behaviour |-> behaviour,
                args |-> HostArgs(gPhys[b]),
                result |-> CallHandler(gPhys[b], HostArgs(gPhys[b]), triggered, behaviour)]
    /\ gPc' = "done"
    /\ UNCHANGED <<gCallbacks, gPhys>>
    /\ UNCHANGED <<codecVars, triggerVars, cacheVars, layoutVars>>

GroupNext ==
    \/ GApply
    \/ \E b \in 1..Len(gPhys) : \E triggered \in TriggeredLists :
           \E behaviour \in [1..Len(MembersBehind(gPhys[b])) -> Behaviours] :
               GInvoke(b, triggered, behaviour)

\* the binding whose handler was called, and the members behind it
InvokedBinding == gPhys[gInv.b]
InvokedMembers == MembersBehind(InvokedBinding)

\* a call of a combined handler has been made
CombinedCalled == gPc = "done" /\ InvokedBinding.f.closure # <<>>

\* the members whose handlers were invoked
CalledMembers ==
    {gInv.result.calls[i].member : i \in 1..Len(gInv.result.calls)}

\* the triggering reference is r
Fired(r) == gInv.triggered = <<CreateCallbackId(r)>>

\* the union output slots member m owns
OwnedSlots(m) ==
    {j \in 1..Len(InvokedBinding.Output) :
        \E k \in 1..Len(InvokedMembers[m].Output) :
            SameRef(InvokedBinding.Output[j], InvokedMembers[m].Output[k])}

\* the value member m's handler returns for the output at union slot j
MemberValue(m, j) ==
    OutVal(InvokedMembers[m].f.name,
           CHOOSE k \in 1..Len(InvokedMembers[m].Output) :
               SameRef(InvokedBinding.Output[j], InvokedMembers[m].Output[k]))

\* a combined binding of two members A (inputs {x}) and B (inputs {y}), x # y
TwoMemberCase ==
    /\ CombinedCalled
    /\ Len(InvokedMembers) = 2
    /\ Len(InvokedMembers[1].Input) = 1
    /\ Len(InvokedMembers[2].Input) = 1
    /\ ~SameRef(InvokedMembers[1].Input[1], InvokedMembers[2].Input[1])

\* the returned union vector holds member m's values in the slots m owns
\* and no_update in every other slot
ReturnsOnly(m) ==
    /\ gInv.result.outcome = "return"
    /\ Len(gInv.result.value) >= 1
    /\ \A j \in 1..Len(gInv.result.value) :
           gInv.result.value[j] = IF j \in OwnedSlots(m) THEN MemberValue(m, j)
                                  ELSE NoUpdate

\* firing the input of member m invokes m alone and returns m's values alone
FiringInvokesOnly(m) ==
    Fired(InvokedMembers[m].Input[1]) =>
        /\ CalledMembers = {m}
        /\ gInv.behaviour[m] = "value" => ReturnsOnly(m)

\* a triggering reference that is an input of neither member: no update
UnrelatedIsNoUpdate ==
    (\A m \in 1..2 : ~Fired(InvokedMembers[m].Input[1])) =>
        /\ gInv.result.outcome = "PreventUpdate"
        /\ CalledMembers = {}

NoSentinelInputs ==
    \A m \in 1..2 : ~HasWildcardValue(CreateCallbackId(InvokedMembers[m].Input[1]))

ListsTrigger(m) ==
    /\ gInv.triggered # <<>>
    /\ \E k \in 1..Len(InvokedMembers[m].Input) :
           CreateCallbackId(InvokedMembers[m].Input[k]) = gInv.triggered[1]

ShareOutput(c1, c2) ==
    \E a \in 1..Len(c1.Output) : \E b \in 1..Len(c2.Output) :
        SameRef(c1.Output[a], c2.Output[b])

\* the output reference sets of the physical bindings are pairwise disjoint
PhysDisjoint ==
    \A i \in 1..Len(gPhys) : \A j \in 1..Len(gPhys) :
        i # j => ~ShareOutput(gPhys[i], gPhys[j])

\* declared bindings that write a common output are grouped under one key
SharedOutputsGrouped ==
    \A i \in 1..Len(gCallbacks) : \A j \in 1..Len(gCallbacks) :
        (i # j /\ ShareOutput(gCallbacks[i], gCallbacks[j])) =>
            /\ gCallbacks[i].kwargs.group # ""
            /\ gCallbacks[i].kwargs.group = gCallbacks[j].kwargs.group

\* C3 as stated: for every list of declared bindings the list returned by
\* GroupTransform.apply has pairwise disjoint output reference sets.
C3_AsStated ==
    gPc \in {"invoke", "done"} => PhysDisjoint

\* C3 (amended): the list returned by GroupTransform.apply has pairwise
\* disjoint output reference sets when every two declared bindings that
\* write a common output reference are grouped under the same key.
C3_OutputUniqueness ==
    (gPc \in {"invoke", "done"} /\ SharedOutputsGrouped) => PhysDisjoint

\* C3 witness: two declared bindings share an output, are grouped under one
\* key, and the returned list is disjoint
C3_Witness ==
    /\ gPc = "invoke"
    /\ SharedOutputsGrouped
    /\ \E i \in 1..Len(gCallbacks) : \E j \in 1..Len(gCallbacks) :
           i # j /\ ShareOutput(gCallbacks[i], gCallbacks[j])
    /\ PhysDisjoint

(***************************************************************************)
(* Claims about the combined handler's failure handling and its frame      *)
(***************************************************************************)

\* the closure of the combined handler that was called
InvokedClosure == InvokedBinding.f.closure[1]

\* the matching of lines 304-326 resolves the triggering reference to no
\* member: there is no firing context, or no member's input list matches
Unresolved ==
    \/ gInv.triggered = <<>>
    \/ \A i \in 1..Len(InvokedClosure.input_prop_lists) :
           MemberMatch(InvokedClosure.input_prop_lists[i], gInv.triggered[1], 1) # "match"

\* C12: a call of a combined handler whose triggering reference resolves to
\* no member ends in the 'no update' signal (PreventUpdate), never in
\* another exception
C12_UnresolvedIsNoUpdate ==
    (CombinedCalled /\ Unresolved) => gInv.result.outcome = "PreventUpdate"

\* the combined handler ended without an exception other than PreventUpdate
WrapperEnded == gInv.result.outcome \in {"return", "PreventUpdate"}

\* the members that were invoked and returned values, and own union slot j
Writers(j) ==
    {m \in CalledMembers : gInv.behaviour[m] = "value" /\ j \in OwnedSlots(m)}

\* what the union slot j holds after the loop: the value of the last member
\* that wrote it, no_update if none did
SlotValue(j) ==
    IF Writers(j) = {} THEN NoUpdate
    ELSE MemberValue(CHOOSE m \in Writers(j) : \A n \in Writers(j) : n <= m, j)

\* C15: every member invoked by a combined handler is called with the
\* current values of its own declared inputs followed by those of its own
\* declared states, in its declaration order; the values it returns are
\* written to the union output slots it owns and every other slot stays
\* no_update
C15_MemberFrame ==
    (CombinedCalled /\ WrapperEnded) =>
        /\ \A i \in 1..Len(gInv.result.calls) :
               gInv.result.calls[i].args =
                   HostArgs(InvokedMembers[gInv.result.calls[i].member])
        /\ gInv.result.outcome = "return" =>
               /\ Len(gInv.result.value) = Len(InvokedBinding.Output)
               /\ \A j \in 1..Len(gInv.result.value) :
                      gInv.result.value[j] = SlotValue(j)

\* a member invoked by the combined handler raised PreventUpdate
MemberPrevented ==
    \E m \in CalledMembers : gInv.behaviour[m] = "PreventUpdate"

\* C16: when a member invoked by a combined handler raises PreventUpdate the
\* invocation goes on: the members that list the triggering reference are
\* all invoked, the member that raised writes no slot, the values written by
\* the other members are returned, and the combined handler raises
\* PreventUpdate exactly when every slot is still no_update at the end
C16_MemberNoUpdate ==
    (CombinedCalled /\ MemberPrevented) =>
        /\ WrapperEnded
        /\ \A n \in 1..Len(InvokedMembers) : ListsTrigger(n) => n \in CalledMembers
        /\ gInv.result.outcome = "PreventUpdate"
               <=> \A j \in 1..Len(InvokedBinding.Output) : SlotValue(j) = NoUpdate
        /\ gInv.result.outcome = "return" =>
               /\ Len(gInv.result.value) = Len(InvokedBinding.Output)
               /\ \A j \in 1..Len(gInv.result.value) :
                      gInv.result.value[j] = SlotValue(j)

\* C16 witness: the first member wrote its slot, the second raised
\* PreventUpdate, and the first member's value was returned
C16_Witness ==
    /\ CombinedCalled
    /\ CalledMembers = {1, 2}
    /\ gInv.behaviour = <<"value", "PreventUpdate">>
    /\ gInv.result.outcome = "return"
    /\ \E j \in OwnedSlots(1) : gInv.result.value[j] = MemberValue(1, j)

(***************************************************************************)
(* Serverside output transform.  A Python value is None, an int, a string  *)
(* or a value a handler computed.  A cache key, which is also the token a  *)
(* server-side output returns, is a string.                                *)
(***************************************************************************)

NoneVal == [t |-> "None", s |-> <<>>, n |-> 0]

\* what a user handler named name returns in its j-th output from arguments
\* inner on its n-th execution: a handler need not be a pure function
HVal(name, inner, n, j) == [t |-> "val", by |-> name, args |-> inner, n |-> n, j |-> j]

\* line 362
DEFAULT_CACHE_ARGS == <<"output", "func", "args", "session">>

\* an attribute that is None / that holds v
Unset == [set |-> FALSE, v |-> <<>>]
Given(v) == [set |-> TRUE, v |-> v]

\* EnrichedOutput.__init__ with backend=None, cache_args=None, for kind one
\* of "EnrichedOutput", "ServersideOutput" (backend "" is None)
EnrichedOutput(kind, cid, prop) ==
    [kind |-> kind, component_id |-> cid, component_property |-> prop,
     backend |-> "", cache_args |-> Unset]

\* ServersideOutputTransform.__init__ with the defaults
ServersideOutputTransform ==
    [backend |-> "FileSystemStore", cache_args |-> DEFAULT_CACHE_ARGS]

\* lines 407-412: the reads of output.backend and output.cache_args are
\* reached for a ServersideOutput and, under memoize, for every output
SetDefaults(self, memoize, output) ==
    IF ~IsServersideOutput(output) /\ ~memoize THEN output
    ELSE [output EXCEPT !.backend = IF @ = "" THEN self.backend ELSE @,
                        !.cache_args = IF @.set THEN @ ELSE Given(self.cache_args)]

\* line 409 raises AttributeError: a plain Output has no attribute backend
ServersideApplyFails(callbacks) ==
    \E c \in 1..Len(callbacks) : \E i \in 1..Len(callbacks[c].Output) :
        /\ callbacks[c].kwargs.memoize
        /\ callbacks[c].Output[i].kind = "Output"

\* step 1 for one callback: its outputs with the defaults set
WithDefaults(self, callback) ==
    [callback EXCEPT !.Output =
        [i \in 1..Len(callback.Output) |->
            SetDefaults(self, callback.kwargs.memoize, callback.Output[i])]]

\* step 1: the server-side outputs of all callbacks, in iteration order
RECURSIVE ServersideOutputsOf(_, _)
ServersideOutputsOf(callbacks, c) ==
    IF c > Len(callbacks) THEN <<>>
    ELSE Cat(SelectSeq(callbacks[c].Output, IsServersideOutput),
             ServersideOutputsOf(callbacks, c + 1))

\* serverside_output_map.get(item_id, None), the map being filled from the
\* list outs in order (a later entry replaces an earlier one with its key)
MapGet(outs, item_id) ==
    LET hits == {i \in 1..Len(outs) : CreateCallbackId(outs[i]) = item_id}
    IN  IF hits = {} THEN Unset
        ELSE Given(outs[CHOOSE i \in hits : \A k \in hits : k <= i])

\* step 2 for one callback
InjectUnpack(outs, callback) ==
    LET items == Cat(callback.Input, callback.State)
        serverside_outputs ==
            [j \in 1..Len(items) |-> MapGet(outs, CreateCallbackId(items[j]))]
    IN  IF \E j \in 1..Len(items) : serverside_outputs[j].set
        THEN [callback EXCEPT !.f = [@ EXCEPT !.unpack = serverside_outputs]]
        ELSE callback

\* line 414: the callback is one of serverside_callbacks
IsServersideCallback(callback) ==
    \/ callback.kwargs.memoize
    \/ \E i \in 1..Len(callback.Output) : IsServersideOutput(callback.Output[i])

\* a faulty step 3 that never wraps the handler with _pack_outputs
InjectPackMutant(callback) ==
    [callback EXCEPT !.kwargs = [@ EXCEPT !.memoize = FALSE]]

\* steps 3 and 4 for one callback
InjectPack(callback) ==
    IF IsServersideCallback(callback)
    THEN [callback EXCEPT !.f = [@ EXCEPT !.packed = TRUE,
                                          !.memoize = callback.kwargs.memoize],
                          !.kwargs = [@ EXCEPT !.memoize = FALSE]]
    ELSE [callback EXCEPT !.kwargs = [@ EXCEPT !.memoize = FALSE]]

\* ServersideOutputTransform.apply
ServersideOutputTransformApply(self, callbacks) ==
    LET indexed == [c \in 1..Len(callbacks) |-> WithDefaults(self, callbacks[c])]
        outs    == ServersideOutputsOf(indexed, 1)
    IN  [c \in 1..Len(callbacks) |-> InjectPack(InjectUnpack(outs, indexed[c]))]

(***************************************************************************)
(* Cache keys                                                              *)
(***************************************************************************)

\* json.dumps of a string: the quote and the backslash are escaped
RECURSIVE JsonEscape(_)
JsonEscape(s) ==
    IF s = <<>> THEN <<>>
    ELSE IF Head(s) \in {"\"", "\\"}
    THEN Cat(<<"\\", Head(s)>>, JsonEscape(Tail(s)))
    ELSE Cat(<<Head(s)>>, JsonEscape(Tail(s)))

\* json.dumps of one element of all_args
JsonElement(v) ==
    CASE v.t = "str"  -> Cat(<<"\"">>, Cat(JsonEscape(v.s), <<"\"">>))
      [] v.t = "int"  -> IntStr(v.n)
      [] v.t = "None" -> <<"n", "u", "l", "l">>

\* json.dumps of a list
RECURSIVE JsonElements(_)
JsonElements(vals) ==
    IF vals = <<>> THEN <<>>
    ELSE IF Len(vals) = 1 THEN JsonElement(vals[1])
    ELSE Cat(JsonElement(vals[1]), Cat(<<",", " ">>, JsonElements(Tail(vals))))

JsonDumpsList(vals) == Cat(<<"[">>, Cat(JsonElements(vals), <<"]">>))

\* hashlib.md5(text.encode()).hexdigest(): the digest is written as the
\* text it digests behind a tag, so distinct texts have distinct digests
Md5(text) == StrVal(Cat(<<"m", "d", "5", ":">>, text))

\* 'name' in cache_args
InList(name, list) == \E i \in 1..Len(list) : list[i] = name

\* a faulty _get_cache_id that leaves the session out of the key
GetCacheIdMutant(func, output, args, cache_args, session) ==
    LET p1 == IF InList("func", cache_args) THEN <<StrVal(func.name)>> ELSE <<>>
        p2 == IF InList("output", cache_args)
              THEN <<StrVal(CreateCallbackId(output))>> ELSE <<>>
        p3 == IF InList("args", cache_args) THEN args ELSE <<>>
    IN  Md5(JsonDumpsList(Cat(p1, Cat(p2, p3))))

\* _get_cache_id, with session the value _get_session_id() returns
GetCacheId(func, output, args, cache_args, session) ==
    LET p1 == IF InList("func", cache_args) THEN <<StrVal(func.name)>> ELSE <<>>
        p2 == IF InList("output", cache_args)
              THEN <<StrVal(CreateCallbackId(output))>> ELSE <<>>
        p3 == IF InList("args", cache_args) THEN args ELSE <<>>
        p4 == IF InList("session", cache_args) THEN <<StrVal(session)>> ELSE <<>>
    IN  Md5(JsonDumpsList(Cat(p1, Cat(p2, Cat(p3, p4)))))

\* lines 477-480 and 496-498: the key of output i for the arguments args
UniqueId(callback, i, args, session) ==
    GetCacheId(callback.f, callback.Output[i],
               FilterArgs(TriggerFilter(callback.sorted_args), args),
               callback.Output[i].cache_args.v, session)

(***************************************************************************)
(* FileSystemStore.  A file holds two pickled objects, the time at which   *)
(* the entry expires and the value; files maps a key to its file.          *)
(***************************************************************************)

\* bytes that are not a pickle, where the pickled value should be
Garbage == [t |-> "garbage", s |-> <<>>, n |-> 0]

\* lines 557-558, the two calls of pickle.load on a file: the exception that
\* ends them, "" if none.  A file is the objects pickled into it: the time,
\* then the value.  A file cut short ends one of the loads in EOFError (ran
\* out of input), bytes that are not a pickle end it in UnpicklingError.
PickleLoad(file) ==
    IF Len(file) < 2 THEN "EOFError"
    ELSE IF file[2] = Garbage THEN "UnpicklingError"
    ELSE ""

\* FileSystemCache.has(key): the entry is there and has not expired
Has(files, time, key) ==
    key \in DOMAIN files /\ PickleLoad(files[key]) = "" /\ files[key][1] >= time

\* FileSystemCache.get(key)
CacheGet(files, time, key) ==
    IF Has(files, time, key) THEN files[key][2] ELSE NoneVal

\* a faulty FileSystemCache.set that deletes every other entry
CacheSetMutant(files, time, key, value) ==
    [k \in {key} |-> <<time, value>>]

\* FileSystemCache.set(key, value): the entry expires when the time passes
\* that of the write
CacheSet(files, time, key, value) ==
    [k \in DOMAIN files \cup {key} |->
        IF k = key THEN <<time, value>> ELSE files[k]]

\* a faulty FileSystemStore.get that never ignores the expiry
FileSystemStoreGetMutant(files, time, key, ignore_expired) ==
    CacheGet(files, time, key)

\* FileSystemStore.get: the exception it ends in, "" if it returns.  Line 559
\* catches IOError, OSError and pickle.PickleError; EOFError is none of them.
FileSystemStoreGetRaises(files, key, ignore_expired) ==
    IF ~ignore_expired \/ key \notin DOMAIN files THEN ""
    ELSE IF PickleLoad(files[key]) = "UnpicklingError" THEN ""
    ELSE PickleLoad(files[key])

\* FileSystemStore.get: what it returns, when it returns
FileSystemStoreGet(files, time, key, ignore_expired) ==
    IF ~ignore_expired THEN CacheGet(files, time, key)
    ELSE IF key \notin DOMAIN files THEN NoneVal      \* IOError / OSError
    ELSE IF PickleLoad(files[key]) # "" THEN NoneVal  \* pickle.PickleError
    ELSE files[key][2]                                \* the time is skipped

\* _unpack_outputs.decorated_function: the arguments f is called with
UnpackArgs(serverside_outputs, files, time, args) ==
    IF ~(\E i \in 1..Len(serverside_outputs) : serverside_outputs[i].set)
    THEN args
    ELSE [i \in 1..Len(args) |->
            IF ~serverside_outputs[i].set THEN args[i]
            ELSE IF args[i].t # "str" THEN NoneVal    \* TypeError, line 453
            ELSE FileSystemStoreGet(files, time, args[i], TRUE)]

\* _unpack_outputs.decorated_function: the exception that ends it before f
\* is called, "" if f is called.  Line 452 catches TypeError only.
UnpackRaises(serverside_outputs, files, args) ==
    LET raising == {i \in 1..Len(serverside_outputs) :
                       /\ serverside_outputs[i].set
                       /\ args[i].t = "str"
                       /\ FileSystemStoreGetRaises(files, args[i], TRUE) # ""}
    IN  IF raising = {} THEN ""
        ELSE FileSystemStoreGetRaises(
                 files, args[CHOOSE i \in raising : \A k \in raising : i <= k], TRUE)

\* return results if multi_output else results[0]
Returned(callback, data) ==
    IF callback.multi_output THEN data ELSE <<data[1]>>

(***************************************************************************)
(* Specification SpecCache: two bindings behind ServersideOutputTransform, *)
(* invoked by up to two concurrent requests.  Binding 1 (A) writes the     *)
(* output o, binding 2 (B) reads o.  Each call of the backend and each     *)
(* execution of a handler is one step.                                     *)
(***************************************************************************)

MaxInvocations == 2
MaxTime == 2

Workers == {1, 2}

OPlain == StrId(<<"o">>)
ODict  == DictId(<<[k |-> <<"t">>, v |-> StrVal(<<"a">>)], [k |-> <<"i">>, v |-> IntVal(1)]>>)
\* the same dict as ODict, its keys inserted in the other order
ODictPermuted ==
    DictId(<<[k |-> <<"i">>, v |-> IntVal(1)], [k |-> <<"t">>, v |-> StrVal(<<"a">>)]>>)

Memoize(m) == [group |-> "", memoize |-> m]

\* the declarations of binding A around its output id
AShapes(oid) ==
    LET so == EnrichedOutput("ServersideOutput", oid, <<"v">>)
        eo == EnrichedOutput("EnrichedOutput", oid, <<"v">>)
        ep == EnrichedOutput("EnrichedOutput", StrId(<<"p">>), <<"v">>)
        n  == Dep("Input", StrId(<<"n">>), <<"v">>)
        t  == Dep("Trigger", StrId(<<"b">>), <<"c">>)
        f  == Handler(<<"f">>)
    IN  { DashCallback(<<so, n>>, Memoize(TRUE), f),
          DashCallback(<<so, n>>, Memoize(FALSE), f),
          DashCallback(<<eo, n>>, Memoize(TRUE), f),
          DashCallback(<<so, ep, n>>, Memoize(TRUE), f),
          DashCallback(<<Dep("Output", oid, <<"v">>), n>>, Memoize(TRUE), f),
          DashCallback(<<so, t, n>>, Memoize(TRUE), f) }

\* binding B reads the component property A writes and a state
BShape(oid) ==
    DashCallback(<<Dep("Output", StrId(<<"r">>), <<"v">>),
                   Dep("Input", oid, <<"v">>),
                   Dep("State", StrId(<<"k">>), <<"v">>)>>,
                 Memoize(FALSE), Handler(<<"g">>))

\* every shape of A around a string id; around a dict id the second, with B
\* naming the id with its keys in the same or in the other order
CacheDeclarations ==
    {<<a, BShape(OPlain)>> : a \in AShapes(OPlain)}
        \cup {<<DashCallback(<<EnrichedOutput("ServersideOutput", ODict, <<"v">>),
                                Dep("Input", StrId(<<"n">>), <<"v">>)>>,
                              Memoize(FALSE), Handler(<<"f">>)),
                 BShape(oid)>> : oid \in {ODict, ODictPermuted}}

\* flask's session["session_id"] as a request carries it; <<>> is a request
\* without one
Sessions == {<<>>, <<"s", "1">>}

\* the sessions tried with a binding: only _pack_outputs reads the session
SessionsFor(callback) == IF callback.f.packed THEN Sessions ELSE {<<>>}

\* a request that is not being served
IdleWorker ==
    [pc |-> "idle", id |-> 0, b |-> 0, args |-> <<>>, session |-> <<>>, i |-> 0,
     unique_ids |-> <<>>, data |-> <<>>, executed |-> FALSE, inner |-> <<>>,
     computed |-> <<>>, expect |-> <<>>, stored |-> <<>>, start |-> 0,
     dCall |-> 0, nsets |-> 0, triggered |-> <<>>]

NoRead == [key |-> NoneVal, result |-> NoneVal, n |-> 0, stale |-> FALSE]

\* _get_session_id: a request without a session id gets a new one from
\* secrets.token_urlsafe, which no other request holds
GetSessionId(r) ==
    IF r.session = <<>> THEN Cat(<<"r">>, IntStr(r.id)) ELSE r.session

\* the values the host may pass for one input or state: a click count for a
\* Trigger, the content of o (a token of the backend, or nothing yet) for
\* the property A writes, a number otherwise
ArgChoices(item) ==
    IF IsTrigger(item) THEN {IntVal(1), IntVal(2)}
    ELSE IF item.component_id \in {OPlain, ODict, ODictPermuted}
    THEN DOMAIN sFiles \cup {NoneVal}
    ELSE {IntVal(5)}

\* the argument lists the host may pass to callback["f"]: inputs, then states
ArgLists(callback) ==
    LET items == Cat(callback.Input, callback.State)
    IN  {args \in [1..Len(items) -> UNION {ArgChoices(items[j]) : j \in 1..Len(items)}] :
            \A j \in 1..Len(items) : args[j] \in ArgChoices(items[j])}

\* the request of worker w ends: its record goes to the log
Finish(w, r, outcome, value, events) ==
    /\ sLog' = Append(sLog,
                 [id |-> r.id, b |-> r.b, args |-> r.args, session |-> r.session,
                  executed |-> r.executed, outcome |-> outcome, value |-> value,
                  inner |-> r.inner, computed |-> r.computed, expect |-> r.expect,
                  stored |-> r.stored, start |-> r.start, dCall |-> r.dCall,
                  nsets |-> r.nsets, dEnd |-> events, triggered |-> r.triggered])
    /\ sWorkers' = [sWorkers EXCEPT ![w] = IdleWorker]

\* the request of worker w goes on from r
Continue(w, r) ==
    /\ sWorkers' = [sWorkers EXCEPT ![w] = r]
    /\ UNCHANGED sLog

\* lines 473-483: one turn of the memoize loop, with its call of backend.has
Check(w, r) ==
    LET callback  == sPhys[r.b]
        session   == GetSessionId(r)
        unique_id == UniqueId(callback, r.i, r.args, session)
        r1 == [r EXCEPT !.session = session, !.unique_ids = Append(@, unique_id)]
    IN  /\ IF ~Has(sFiles, sNow, unique_id)
           THEN Continue(w, [r1 EXCEPT !.pc = "call"])      \* update_needed
           ELSE IF r.i < Len(callback.Output)
           THEN Continue(w, [r1 EXCEPT !.i = r.i + 1])
           ELSE Continue(w, [r1 EXCEPT !.pc = "hit", !.i = 1])
        /\ UNCHANGED <<sFiles, sExecs, sEvents, sLastSet>>

\* lines 485-488: one element of results, with its call of backend.get
Hit(w, r) ==
    LET callback == sPhys[r.b]
        uid == r.unique_ids[r.i]
        res == IF IsServersideOutput(callback.Output[r.i]) THEN uid
               ELSE FileSystemStoreGet(sFiles, sNow, uid, FALSE)
        r1  == [r EXCEPT !.data = Append(@, res), !.i = r.i + 1]
    IN  /\ IF r.i < Len(callback.Output)
           THEN Continue(w, r1)
           ELSE Finish(w, r1, "return", Returned(callback, r1.data), sEvents)
        /\ UNCHANGED <<sFiles, sExecs, sEvents, sLastSet>>

\* the arguments with every token replaced by the value last stored under it
Expected(args) ==
    [i \in 1..Len(args) |->
        IF args[i] \in DOMAIN sLastSet THEN sLastSet[args[i]].value ELSE args[i]]

\* line 490, data = f(*args): _unpack_outputs' wrapper if there is one, then
\* the user's handler, which returns one value per output or raises
\* PreventUpdate, or the combined handler of a group, whose members all
\* behave as behaviour says
HandlerResult(callback, inner, triggered, behaviour, n) ==
    IF callback.f.closure # <<>>
    THEN Wrapper(callback.f.closure[1], inner, triggered,
                 [m \in 1..Len(callback.f.closure[1].callbacks) |-> behaviour])
    ELSE IF behaviour = "PreventUpdate"
    THEN [outcome |-> "PreventUpdate", value |-> <<>>, calls |-> <<>>]
    ELSE [outcome |-> "return",
          value   |-> [j \in 1..Len(callback.Output) |->
                          HVal(callback.f.name, inner, n, j)],
          calls   |-> <<>>]

\* what follows line 490 when the handler has ended in result
CallEnd(w, r1, callback, result) ==
    IF result.outcome # "return"
    THEN Finish(w, r1, result.outcome, <<>>, sEvents)
    ELSE IF callback.f.packed
    THEN Continue(w, [r1 EXCEPT !.data = result.value, !.computed = result.value,
                                !.pc = "set", !.i = 1])
    ELSE Finish(w, [r1 EXCEPT !.data = result.value, !.computed = result.value,
                              !.pc = "set", !.i = 1],
                "return", Returned(callback, result.value), sEvents)

Call(w, r, behaviour) ==
    LET callback == sPhys[r.b]
        f        == callback.f
        inner    == InnerArgs(f, UnpackArgs(f.unpack, sFiles, sNow, r.args))
        r1 == [r EXCEPT !.executed = TRUE, !.inner = inner, !.expect = Expected(r.args),
                        !.dCall = sEvents]
        raised == UnpackRaises(f.unpack, sFiles, r.args)
    IN  /\ sExecs' = IF raised = "" THEN sExecs + 1 ELSE sExecs
        /\ IF raised # ""
           THEN Finish(w, r, raised, <<>>, sEvents)
           ELSE CallEnd(w, r1, callback,
                        HandlerResult(callback, inner, r.triggered, behaviour,
                                      sExecs + 1))
        /\ UNCHANGED <<sFiles, sEvents, sLastSet>>

\* lines 494-505: one turn of the loop over the outputs, with its call of
\* backend.set
Store(w, r) ==
    LET callback  == sPhys[r.b]
        output    == callback.Output[r.i]
        serverside_output == IsServersideOutput(output)
        stores    == serverside_output \/ callback.f.memoize
        session   == IF stores THEN GetSessionId(r) ELSE r.session
        unique_id == UniqueId(callback, r.i, r.args, session)
        r1 == IF ~stores THEN [r EXCEPT !.i = r.i + 1]
              ELSE [r EXCEPT !.session = session, !.i = r.i + 1,
                             !.stored = Append(@, unique_id),
                             !.nsets = r.nsets + 1,
                             !.data = IF serverside_output
                                      THEN [@ EXCEPT ![r.i] = unique_id] ELSE @]
        events == IF stores THEN sEvents + 1 ELSE sEvents
    IN  /\ IF stores
           THEN /\ sFiles' = CacheSet(sFiles, sNow, unique_id, r.data[r.i])
                /\ sLastSet' = [k \in DOMAIN sLastSet \cup {unique_id} |->
                                   IF k = unique_id
                                   THEN [value |-> r.data[r.i],
                                         n |-> IF k \in DOMAIN sLastSet
                                               THEN sLastSet[k].n + 1 ELSE 1]
                                   ELSE sLastSet[k]]
           ELSE UNCHANGED <<sFiles, sLastSet>>
        /\ sEvents' = events
        /\ IF r.i < Len(callback.Output)
           THEN Continue(w, r1)
           ELSE Finish(w, r1, "return", Returned(callback, r1.data), events)
        /\ UNCHANGED sExecs

\* the next step of a request that stands at r
Step(w, r, behaviour) ==
    CASE r.pc = "check" -> Check(w, r)
      [] r.pc = "hit"   -> Hit(w, r)
      [] r.pc = "call"  -> Call(w, r, behaviour)
      [] r.pc = "set"   -> Store(w, r)

\* _resolve_callbacks with transforms = [ServersideOutputTransform()]
SApply ==
    /\ sPc = "apply"
    /\ IF ServersideApplyFails(sCallbacks)
       THEN sPhys' = <<>> /\ sPc' = "failed"
       ELSE /\ sPhys' = ServersideOutputTransformApply(ServersideOutputTransform,
                                                       sCallbacks)
            /\ sPc' = "run"
    /\ UNCHANGED <<sCallbacks, sFiles, sNow, sWorkers, sLog, sRead, sExecs,
                   sEvents, sLastSet, sStarted, sCall>>
    /\ UNCHANGED <<codecVars, triggerVars, groupVars, layoutVars>>

\* the host calls callback["f"] of binding b in a new request, which runs
\* to its first call of the backend or of the handler; triggered is
\* dash.callback_context.triggered, which only a combined handler reads
SStart(w, b, args, session, behaviour, triggered) ==
    /\ sPc = "run"
    /\ sStarted < MaxInvocations
    /\ sWorkers[w].pc = "idle"
    /\ \A v \in Workers : v < w => sWorkers[v].pc # "idle"
    /\ sStarted' = sStarted + 1
    /\ Step(w, [IdleWorker EXCEPT
                  !.id = sStarted + 1, !.b = b, !.args = args,
                  !.session = session, !.i = 1, !.start = Len(sLog),
                  !.triggered = triggered,
                  !.pc = IF sPhys[b].f.packed /\ sPhys[b].f.memoize
                         THEN "check" ELSE "call"], behaviour)
    /\ UNCHANGED <<sCallbacks, sPhys, sPc, sNow, sRead, sCall>>
    /\ UNCHANGED <<codecVars, triggerVars, groupVars, layoutVars>>

\* a request goes on by one step
SStep(w, behaviour) ==
    /\ sWorkers[w].pc # "idle"
    /\ Step(w, sWorkers[w], behaviour)
    /\ UNCHANGED <<sCallbacks, sPhys, sPc, sNow, sRead, sStarted, sCall>>
    /\ UNCHANGED <<codecVars, triggerVars, groupVars, layoutVars>>

\* time passes: the entries written so far expire (a passing of time with
\* no entry left to expire changes nothing the program can see)
STick ==
    /\ sPc = "run"
    /\ sNow < MaxTime
    /\ \E key \in DOMAIN sFiles : Has(sFiles, sNow, key)
    /\ sNow' = sNow + 1
    /\ sEvents' = sEvents + 1
    /\ UNCHANGED <<sCallbacks, sPhys, sPc, sFiles, sWorkers, sLog, sRead, sExecs,
                   sLastSet, sStarted, sCall>>
    /\ UNCHANGED <<codecVars, triggerVars, groupVars, layoutVars>>

\* backend.get(key, ignore_expired=True), called on its own
SGet(key) ==
    /\ sPc = "run"
    /\ sRead' = [key    |-> key,
                 result |-> FileSystemStoreGet(sFiles, sNow, key, TRUE),
                 n      |-> IF key \in DOMAIN sLastSet THEN sLastSet[key].n ELSE 0,
                 stale  |-> key \in DOMAIN sFiles /\ ~Has(sFiles, sNow, key)]
    /\ UNCHANGED <<sCallbacks, sPhys, sPc, sFiles, sNow, sWorkers, sLog, sExecs,
                   sEvents, sLastSet, sStarted, sCall>>
    /\ UNCHANGED <<codecVars, triggerVars, groupVars, layoutVars>>

CacheNext ==
    \/ SApply
    \/ \E w \in Workers : \E b \in 1..Len(sPhys) : \E args \in ArgLists(sPhys[b]) :
       \E session \in SessionsFor(sPhys[b]) : \E behaviour \in Behaviours :
           SStart(w, b, args, session, behaviour, <<>>)
    \/ \E w \in Workers : \E behaviour \in Behaviours : SStep(w, behaviour)
    \/ STick

(***************************************************************************)
(* Specification SpecStore: the FileSystemStore on its own, with values    *)
(* set under two keys, time passing, and reads that ignore the expiry.     *)
(***************************************************************************)

MaxSets == 2

StoreKeys == {Md5(<<"k", "1">>), Md5(<<"k", "2">>)}
StoreValues == {IntVal(5), IntVal(6), NoneVal}

\* how many sets have happened
SetsMade == sEvents - (sNow - 1)

\* backend.set(key, value), called on its own
SSet(key, value) ==
    /\ sPc = "run"
    /\ SetsMade < MaxSets
    /\ sFiles' = CacheSet(sFiles, sNow, key, value)
    /\ sLastSet' = [k \in DOMAIN sLastSet \cup {key} |->
                       IF k = key
                       THEN [value |-> value,
                             n |-> IF k \in DOMAIN sLastSet THEN sLastSet[k].n + 1 ELSE 1]
                       ELSE sLastSet[k]]
    /\ sEvents' = sEvents + 1
    /\ UNCHANGED <<sCallbacks, sPhys, sPc, sNow, sWorkers, sLog, sRead, sExecs,
                   sStarted, sCall>>
    /\ UNCHANGED <<codecVars, triggerVars, groupVars, layoutVars>>

StoreNext ==
    \/ \E key \in StoreKeys : \E value \in StoreValues : SSet(key, value)
    \/ STick
    \/ \E key \in StoreKeys : SGet(key)

(***************************************************************************)
(* Specification SpecUnwrap: a handler behind _unpack_outputs, called on   *)
(* its own with two arguments.  The first is backed by a server-side       *)
(* output, the second is not.  The files are written by backend.set; what  *)
(* is outside the program may cut a file short or overwrite its value with *)
(* bytes that are not a pickle.                                            *)
(***************************************************************************)

\* the serverside_outputs given to _unpack_outputs
UnwrapOutputs ==
    <<Given(SetDefaults(ServersideOutputTransform, FALSE,
                        EnrichedOutput("ServersideOutput", OPlain, <<"v">>))),
      Unset>>

\* the values the client sends for the two arguments
UnwrapArgs ==
    {<<token, IntVal(6)>> : token \in StoreKeys \cup {NoneVal, IntVal(5)}}

Damages == {"empty", "cut", "garbage"}

NoCall == [n |-> 0, args |-> <<>>, files |-> <<>>, raised |-> "", inner |-> <<>>]

\* a file loses its end or its value
SDamage(key, damage) ==
    /\ sPc = "run"
    /\ key \in DOMAIN sFiles
    /\ PickleLoad(sFiles[key]) = ""
    /\ sFiles' = [sFiles EXCEPT ![key] =
                     CASE damage = "empty"   -> <<>>
                       [] damage = "cut"     -> <<sFiles[key][1]>>
                       [] damage = "garbage" -> <<sFiles[key][1], Garbage>>]
    /\ UNCHANGED <<sCallbacks, sPhys, sPc, sNow, sWorkers, sLog, sRead, sExecs,
                   sEvents, sLastSet, sStarted, sCall>>
    /\ UNCHANGED <<codecVars, triggerVars, groupVars, layoutVars>>

\* decorated_function(*args) of _unpack_outputs: the exception that ends it
\* or the arguments f is called with
SUnpack(args) ==
    /\ sPc = "run"
    /\ sCall' = [n      |-> 1,
                 args   |-> args,
                 files  |-> sFiles,
                 raised |-> UnpackRaises(UnwrapOutputs, sFiles, args),
                 inner  |-> IF UnpackRaises(UnwrapOutputs, sFiles, args) = ""
                            THEN UnpackArgs(UnwrapOutputs, sFiles, sNow, args)
                            ELSE <<>>]
    /\ UNCHANGED <<sCallbacks, sPhys, sPc, sFiles, sNow, sWorkers, sLog, sRead,
                   sExecs, sEvents, sLastSet, sStarted>>
    /\ UNCHANGED <<codecVars, triggerVars, groupVars, layoutVars>>

UnwrapNext ==
    \/ \E key \in StoreKeys : \E value \in StoreValues : SSet(key, value)
    \/ STick
    \/ \E key \in StoreKeys : \E damage \in Damages : SDamage(key, damage)
    \/ \E args \in UnwrapArgs : SUnpack(args)

\* the lookup of the token arg in the files cannot give a stored value: the
\* token is not a string, no file has its name, or the file is damaged
LookupFails(files, arg) ==
    \/ arg.t # "str"
    \/ arg \notin DOMAIN files
    \/ PickleLoad(files[arg]) # ""

\* C13: in a call of the unwrapping handler, every argument that is backed
\* by a server-side output and whose lookup fails (invalid or missing token,
\* damaged file) reaches the handler as None, and the handler is called
C13_FailedLookupGivesNone ==
    sCall.n > 0 =>
        \A i \in 1..Len(UnwrapOutputs) :
            (UnwrapOutputs[i].set /\ LookupFails(sCall.files, sCall.args[i]))
                => (sCall.raised = "" /\ sCall.inner[i] = NoneVal)

(***************************************************************************)
(* Claims about the cache                                                  *)
(***************************************************************************)

\* the arguments an entry's cache keys are derived from
KeyArgs(e) == FilterArgs(TriggerFilter(sCallbacks[e.b].sorted_args), e.args)

\* two logged requests to the same binding, declared with memoize, with the
\* same trigger-filtered arguments and the same session, the second begun
\* after the first had ended
SequentialPairs ==
    {pq \in (1..Len(sLog)) \X (1..Len(sLog)) :
        /\ pq[1] < pq[2]
        /\ sLog[pq[2]].start >= pq[1]
        /\ sLog[pq[1]].b = sLog[pq[2]].b
        /\ sCallbacks[sLog[pq[1]].b].kwargs.memoize
        /\ KeyArgs(sLog[pq[1]]) = KeyArgs(sLog[pq[2]])
        /\ sLog[pq[1]].session = sLog[pq[2]].session}

\* the positions of the server-side outputs of declared binding b
ServersideSlots(b) ==
    {i \in 1..Len(sCallbacks[b].Output) : IsServersideOutput(sCallbacks[b].Output[i])}

\* reading a token from the backend
ReadBack(token) == FileSystemStoreGet(sFiles, sNow, token, TRUE)

\* the second of two sequential requests did not call the handler and
\* returned what the first returned
SecondIsHit(p, q) ==
    /\ ~q.executed
    /\ q.outcome = "return"
    /\ q.value = p.value

\* the tokens the second request returned read as what the first computed
TokensReadBack(p, q) ==
    \A i \in ServersideSlots(p.b) : ReadBack(q.value[i]) = p.computed[i]

Undisturbed(p, events) == events = p.dCall + p.nsets

StoredKeys(e) == {e.stored[i] : i \in 1..Len(e.stored)}

\* C5 as stated: while no entry has expired, no two requests to a memoized
\* binding both execute the handler and store under one cache key
C5_AtMostOnce ==
    sNow = 1 =>
        \A p \in 1..Len(sLog) : \A q \in 1..Len(sLog) :
            (/\ p < q
             /\ sLog[p].b = sLog[q].b
             /\ sCallbacks[sLog[p].b].kwargs.memoize
             /\ sLog[p].executed
             /\ sLog[q].executed)
            => StoredKeys(sLog[p]) \cap StoredKeys(sLog[q]) = {}

\* C9: get(K, ignore_expired=True) returns the value of the last set(K, .)
\* as long as no other set(K, .) has happened, expired or not, and None for
\* a key that was never written
C9_RoundTrip ==
    /\ (sRead.n > 0 /\ sLastSet[sRead.key].n = sRead.n)
           => sRead.result = sLastSet[sRead.key].value
    /\ sRead.n = 0 => sRead.result = NoneVal

\* C9 witness: an expired entry was read and gave the value last set
C9_Witness ==
    /\ sRead.n > 0
    /\ sRead.stale
    /\ sLastSet[sRead.key].n = sRead.n
    /\ sRead.result = sLastSet[sRead.key].value

\* A returned the token at its server-side output i before request q began
ReturnedBefore(q, i) ==
    \E p \in 1..Len(sLog) :
        /\ p <= q.start
        /\ sLog[p].b = 1
        /\ sLog[p].outcome = "return"
        /\ sLog[p].value[i] = q.args[1]

\* C10 as stated: when B's first input is a server-side output of A and B
\* is called with a token A returned for it, B's handler gets the value
\* stored under the token there and its other argument as passed
C10_Unwrap ==
    \A k \in 1..Len(sLog) : \A i \in ServersideSlots(1) :
        (/\ sLog[k].b = 2
         /\ sLog[k].executed
         /\ SameRef(sCallbacks[2].Input[1], sCallbacks[1].Output[i])
         /\ ReturnedBefore(sLog[k], i))
        => /\ sLog[k].inner[1] = sLog[k].expect[1]
           /\ sLog[k].inner[2] = sLog[k].args[2]

(***************************************************************************)
(* Claims about what the pack-on-write wrapper returns and stores          *)
(***************************************************************************)

\* the logged requests that went through _pack_outputs' wrapper and returned
PackedReturns ==
    {k \in 1..Len(sLog) : sPhys[sLog[k].b].f.packed /\ sLog[k].outcome = "return"}

\* the key of output i for the logged request e
KeyOf(e, i) == UniqueId(sPhys[e.b], i, e.args, e.session)

\* output i of the logged request e is stored by the wrapper
IsStoredOutput(e, i) ==
    IsServersideOutput(sPhys[e.b].Output[i]) \/ sPhys[e.b].f.memoize

\* C11: a request through the pack-on-write wrapper returns, for each output,
\* the cache key if the output is a ServersideOutput and a value the handler
\* computed otherwise, on the compute path and on the cache-hit path; on the
\* compute path it stores under the key of every output that is server-side
\* or belongs to a memoized binding, and of no other
C11_TokenIffServerside ==
    \A k \in PackedReturns : \A i \in 1..Len(sPhys[sLog[k].b].Output) :
        /\ IsServersideOutput(sPhys[sLog[k].b].Output[i])
               => sLog[k].value[i] = KeyOf(sLog[k], i)
        /\ ~IsServersideOutput(sPhys[sLog[k].b].Output[i])
               => /\ sLog[k].value[i].t = "val"
                  /\ sLog[k].executed => sLog[k].value[i] = sLog[k].computed[i]
        /\ sLog[k].executed
               => (KeyOf(sLog[k], i) \in StoredKeys(sLog[k]) <=> IsStoredOutput(sLog[k], i))

(***************************************************************************)
(* Claims about the session in the cache key                               *)
(***************************************************************************)

\* the session id _get_session_id gives the request e, ended or under way
SessionOf(e) == GetSessionId(e)

\* the cache key of output i for the request e in its session
SessionKey(e, i) == UniqueId(sPhys[e.b], i, e.args, SessionOf(e))

\* the sessions of the requests, ended or under way, that stored under key
WrittenBy(key) ==
    {SessionOf(sLog[k]) : k \in {j \in 1..Len(sLog) : key \in StoredKeys(sLog[j])}}
        \cup {SessionOf(sWorkers[w]) :
                 w \in {v \in Workers : key \in StoredKeys(sWorkers[v])}}

\* the logged request q returned without calling the handler
ShortCircuited(q) == ~q.executed /\ q.outcome = "return"

\* C21: with the default cache_args, two requests to the same memoized or
\* server-side binding with the same arguments in different sessions derive
\* different cache keys for every output; a request that returns without
\* calling the handler found every key it looked up written by a request of
\* its own session, and no request returns a token that a request of another
\* session stored under
C21_SessionIsolation ==
    \A k \in 1..Len(sLog) :
        sPhys[sLog[k].b].f.packed =>
            /\ \A p \in 1..Len(sLog) :
                   (/\ sLog[p].b = sLog[k].b
                    /\ sLog[p].args = sLog[k].args
                    /\ SessionOf(sLog[p]) # SessionOf(sLog[k]))
                   => \A i \in 1..Len(sPhys[sLog[k].b].Output) :
                          SessionKey(sLog[p], i) # SessionKey(sLog[k], i)
            /\ ShortCircuited(sLog[k])
                   => \A i \in 1..Len(sPhys[sLog[k].b].Output) :
                          SessionOf(sLog[k]) \in WrittenBy(SessionKey(sLog[k], i))
            /\ sLog[k].outcome = "return"
                   => \A i \in ServersideSlots(sLog[k].b) :
                          WrittenBy(sLog[k].value[i]) \subseteq {SessionOf(sLog[k])}

\* C21 witness: a request to a memoized binding stored its result, and a
\* later request with the same arguments in another session, begun after the
\* first had ended and before any entry expired, called the handler again
C21_Witness ==
    \E p \in 1..Len(sLog) : \E q \in 1..Len(sLog) :
        /\ p < q
        /\ sLog[q].start >= p
        /\ sLog[p].b = sLog[q].b
        /\ sPhys[sLog[p].b].f.packed
        /\ sPhys[sLog[p].b].f.memoize
        /\ sLog[p].args = sLog[q].args
        /\ SessionOf(sLog[p]) # SessionOf(sLog[q])
        /\ sLog[p].outcome = "return"
        /\ sLog[p].stored # <<>>
        /\ Undisturbed(sLog[p], sLog[q].dCall)
        /\ sLog[q].executed
        /\ sLog[q].outcome = "return"

(***************************************************************************)
(* Layout hooks: PrefixIdTransform.layout and NoOutputTransform.layout.    *)
(* A component is an object with an id (NoId when it has no attribute id)  *)
(* and a list of children.  The hidden divs of NoOutputTransform are       *)
(* objects of their own: self.hidden_divs and the children lists they are  *)
(* added to hold the same objects, so a child is either a component of the *)
(* tree (ref = 0) or the ref-th hidden div, whose id is kept in divs.      *)
(***************************************************************************)

NoId == [kind |-> "none", s |-> <<>>, items |-> <<>>]

Node(id, children) == [ref |-> 0, id |-> id, children |-> children]

\* the ref-th element of self.hidden_divs as a child
HiddenDiv(ref) == [ref |-> ref, id |-> NoId, children |-> <<>>]

\* apply_prefix, lines 185-197
ApplyPrefix(prefix, component_id) ==
    IF component_id.kind = "dict"
    THEN DictId([i \in 1..Len(component_id.items) |->
                    IF component_id.items[i].v.t \in {"int", "wild"}
                    THEN component_id.items[i]
                    ELSE [k |-> component_id.items[i].k,
                          v |-> StrVal(Cat(Cat(prefix, <<"-">>),
                                           component_id.items[i].v.s))]])
    ELSE StrId(Cat(Cat(prefix, <<"-">>), component_id.s))

\* prefix_id_recursively, lines 200-206: the item and the hidden divs after
\* the call
RECURSIVE PrefixIdRecursively(_, _, _)
RECURSIVE PrefixChildren(_, _, _, _)

PrefixChildrenNext(children, key, c, r) ==
    PrefixChildren([children EXCEPT ![c] = r.item], key, r.divs, c + 1)

PrefixChildren(children, key, divs, c) ==
    IF c > Len(children) THEN [item |-> children, divs |-> divs]
    ELSE PrefixChildrenNext(children, key, c,
                            PrefixIdRecursively(children[c], key, divs))

PrefixItemEnd(item, key, r) ==
    [item |-> [item EXCEPT !.id = IF @ = NoId THEN NoId ELSE ApplyPrefix(key, @),
                           !.children = r.item],
     divs |-> r.divs]

PrefixIdRecursively(item, key, divs) ==
    IF item.ref > 0
    THEN [item |-> item, divs |-> [divs EXCEPT ![item.ref] = ApplyPrefix(key, @)]]
    ELSE PrefixItemEnd(item, key, PrefixChildren(item.children, key, divs, 1))

\* a transform with a layout hook, as __init__ leaves it
PrefixIdTransform(prefix) ==
    [name |-> "PrefixIdTransform", prefix |-> prefix, initialized |-> FALSE]
NoOutputTransform ==
    [name |-> "NoOutputTransform", prefix |-> <<>>, initialized |-> FALSE]

\* PrefixIdTransform.layout, lines 177-182
PrefixIdLayout(self, layout, divs, layout_is_function) ==
    IF layout_is_function \/ ~self.initialized
    THEN [layout |-> PrefixIdRecursively(layout, self.prefix, divs).item,
          divs   |-> PrefixIdRecursively(layout, self.prefix, divs).divs,
          self   |-> [self EXCEPT !.initialized = TRUE]]
    ELSE [layout |-> layout, divs |-> divs, self |-> self]

\* NoOutputTransform.layout, lines 573-578: self.hidden_divs is divs
NoOutputLayout(self, layout, divs, layout_is_function) ==
    IF layout_is_function \/ ~self.initialized
    THEN [layout |-> [layout EXCEPT !.children =
                         Cat(@, [k \in 1..Len(divs) |-> HiddenDiv(k)])],
          divs   |-> divs,
          self   |-> [self EXCEPT !.initialized = TRUE]]
    ELSE [layout |-> layout, divs |-> divs, self |-> self]

\* transform.layout(layout, layout_is_function)
TransformLayout(self, layout, divs, layout_is_function) ==
    IF self.name = "PrefixIdTransform"
    THEN PrefixIdLayout(self, layout, divs, layout_is_function)
    ELSE NoOutputLayout(self, layout, divs, layout_is_function)

\* _layout_value, lines 84-85: the loop over self.transforms from the t-th on
RECURSIVE LayoutLoop(_, _, _, _, _)

LayoutLoopNext(transforms, divs, layout_is_function, t, r) ==
    LayoutLoop([transforms EXCEPT ![t] = r.self], r.layout, r.divs,
               layout_is_function, t + 1)

LayoutLoop(transforms, layout, divs, layout_is_function, t) ==
    IF t > Len(transforms)
    THEN [layout |-> layout, divs |-> divs, transforms |-> transforms]
    ELSE LayoutLoopNext(transforms, divs, layout_is_function, t,
                        TransformLayout(transforms[t], layout, divs,
                                        layout_is_function))

\* the tree as the host sees it: every hidden div with its current id
RECURSIVE Rendered(_, _)
Rendered(item, divs) ==
    IF item.ref > 0 THEN Node(divs[item.ref], <<>>)
    ELSE Node(item.id,
              [c \in 1..Len(item.children) |-> Rendered(item.children[c], divs)])

(***************************************************************************)
(* Specification SpecLayout: a DashProxy with one or two transforms that   *)
(* have a layout hook.  The callbacks are resolved once (NoOutputTransform *)
(* makes a hidden div for each binding without output) and the layout is   *)
(* rendered by _layout_value a number of times, before the callbacks are   *)
(* resolved or after.  The layout is a static tree, a function that        *)
(* returns the same tree object on every render, or a function that        *)
(* builds the tree anew on every render.                                   *)
(***************************************************************************)

MaxRenders == 2
MaxHidden == 2

LayoutModes == {"static", "same", "fresh"}

LayoutTrees ==
    { Node(StrId(<<"a">>), <<>>),
      Node(StrId(<<"a">>), <<Node(StrId(<<"b">>), <<>>)>>),
      Node(NoId, <<Node(StrId(<<"b">>), <<>>),
                   Node(DictId(<<[k |-> <<"t">>, v |-> StrVal(<<"a">>)],
                                 [k |-> <<"i">>, v |-> IntVal(1)]>>), <<>>)>>),
      Node(StrId(<<"a">>), <<Node(NoId, <<Node(StrId(<<"c">>), <<>>)>>)>>) }

TransformLists ==
    { <<PrefixIdTransform(<<"p">>)>>,
      <<NoOutputTransform>>,
      <<NoOutputTransform, PrefixIdTransform(<<"p">>)>> }

HasNoOutputTransform(transforms) ==
    \E t \in 1..Len(transforms) : transforms[t].name = "NoOutputTransform"

\* _resolve_callbacks with n bindings declared without output:
\* NoOutputTransform.apply (lines 580-587) appends a hidden div for each,
\* with a new uuid as its id
LApply(n) ==
    /\ lPc = "apply"
    /\ n > 0 => HasNoOutputTransform(lTransforms)
    /\ lHiddenDivs' = [k \in 1..n |-> StrId(Cat(<<"u">>, IntStr(k)))]
    /\ lPc' = "serve"
    /\ UNCHANGED <<lTree, lMode, lTransforms, lRenders, lFirst, lLast>>
    /\ UNCHANGED <<codecVars, triggerVars, groupVars, cacheVars>>

\* the state after _layout_value has run on the tree the layout gives
LRendered(r) ==
    /\ lTransforms' = r.transforms
    /\ lHiddenDivs' = r.divs
    /\ lTree' = IF lMode = "fresh" THEN lTree ELSE r.layout
    /\ lLast' = Rendered(r.layout, r.divs)
    /\ lFirst' = IF lRenders = 0 THEN Rendered(r.layout, r.divs) ELSE lFirst

\* _layout_value, lines 82-86: nothing in it waits for the callbacks to be
\* resolved
LLayoutValue ==
    /\ lRenders < MaxRenders
    /\ lRenders' = lRenders + 1
    /\ LRendered(LayoutLoop(lTransforms, lTree, lHiddenDivs, lMode # "static", 1))
    /\ UNCHANGED <<lMode, lPc>>
    /\ UNCHANGED <<codecVars, triggerVars, groupVars, cacheVars>>

LayoutNext ==
    \/ \E n \in 0..MaxHidden : LApply(n)
    \/ LLayoutValue

\* C18: for a static tree and for a layout function that returns the same
\* tree object on every render, the tree after any number of calls of
\* _layout_value equals the tree after the first: identifiers are prefixed
\* once and hidden divs are added once
C18_LayoutIdempotent ==
    (lRenders >= 1 /\ lMode \in {"static", "same"}) => lLast = lFirst

\* the k-th hidden div is among the children of the tree
IsChild(tree, k) == \E c \in 1..Len(tree.children) : tree.children[c].ref = k

\* C22: for a static layout tree, every call of _layout_value made after
\* NoOutputTransform.apply has run returns a tree that has every hidden div
\* apply made among its children, whether or not _layout_value was called
\* before apply ran
C22_PlaceholdersPresent ==
    [][(lMode = "static" /\ lPc = "serve" /\ lRenders' = lRenders + 1)
           => \A k \in 1..Len(lHiddenDivs') : IsChild(lTree', k)]_vars

\* the request of worker w has executed its handler, the handler has
\* returned, and the step writes one of the returned values under key
WritesReturned(w, key) ==
    /\ sWorkers[w].pc = "set"
    /\ sWorkers[w].executed
    /\ sWorkers[w].i \in 1..Len(sWorkers[w].computed)
    /\ sFiles' = CacheSet(sFiles, sNow, key, sWorkers[w].computed[sWorkers[w].i])

\* the step ends a request whose handler raised
EndsRaised ==
    /\ Len(sLog') = Len(sLog) + 1
    /\ sLog'[Len(sLog')].outcome # "return"

\* C19: a file is written only by a request whose handler has returned, with
\* one of the values it returned; a request whose handler raises makes no
\* backend.set and leaves the files as they were; no step removes a key
C19_SetOnlyOnSuccess ==
    [][ /\ DOMAIN sFiles \subseteq DOMAIN sFiles'
        /\ sFiles' # sFiles =>
               \E w \in Workers : \E key \in DOMAIN sFiles' : WritesReturned(w, key)
        /\ EndsRaised => /\ sFiles' = sFiles
                         /\ sLog'[Len(sLog')].nsets = 0
                         /\ sLog'[Len(sLog')].stored = <<>> ]_vars

\* C19 witness: a request behind _pack_outputs raised in its handler and
\* made no set, while the files hold what another request stored
C19_Witness ==
    /\ sFiles # <<>>
    /\ \E k \in 1..Len(sLog) :
           /\ sPhys[sLog[k].b].f.packed
           /\ sLog[k].executed
           /\ sLog[k].outcome = "PreventUpdate"
           /\ sLog[k].nsets = 0

(***************************************************************************)
(* Specification SpecMemo: two bindings of one group behind the transforms *)
(* of class Dash (line 596) that rewrite handlers: TriggerTransform,       *)
(* GroupTransform, ServersideOutputTransform.  The kwargs of the first     *)
(* binding, with or without memoize, become those of the combined binding. *)
(* The host calls the combined handler, each call with a triggering        *)
(* reference; the members' handlers return their values on every call.     *)
(***************************************************************************)

MemoX(kind) == Dep(kind, StrId(<<"x">>), <<"c">>)
MemoY(kind) == Dep(kind, StrId(<<"y">>), <<"c">>)

\* A writes o on x, B writes o or p on y; x and y are both inputs or both
\* triggers
MemoDeclarations ==
    {<<DashCallback(<<EnrichedOutput("EnrichedOutput", StrId(<<"o">>), <<"v">>),
                      MemoX(kind)>>,
                    [group |-> "g", memoize |-> m], Handler(<<"A">>)),
       DashCallback(<<EnrichedOutput("EnrichedOutput", StrId(out), <<"v">>),
                      MemoY(kind)>>,
                    [group |-> "g", memoize |-> m], Handler(<<"B">>))>> :
        kind \in {"Input", "Trigger"}, m \in BOOLEAN, out \in {<<"o">>, <<"p">>}}

\* dash.callback_context.triggered: x fired, y fired, or nothing did
MemoTriggered ==
    {<<CreateCallbackId(MemoX("Input"))>>, <<CreateCallbackId(MemoY("Input"))>>, <<>>}

\* _resolve_callbacks with transforms = [TriggerTransform(), GroupTransform(),
\* ServersideOutputTransform()]
MApply ==
    /\ sPc = "apply"
    /\ IF GroupTransformFails([c \in 1..Len(sCallbacks) |->
                                  TriggerTransformApply(sCallbacks[c])])
       THEN sPhys' = <<>> /\ sPc' = "failed"
       ELSE /\ sPhys' = ServersideOutputTransformApply(
                            ServersideOutputTransform,
                            GroupTransformApply([c \in 1..Len(sCallbacks) |->
                                TriggerTransformApply(sCallbacks[c])]))
            /\ sPc' = "run"
    /\ UNCHANGED <<sCallbacks, sFiles, sNow, sWorkers, sLog, sRead, sExecs,
                   sEvents, sLastSet, sStarted, sCall>>
    /\ UNCHANGED <<codecVars, triggerVars, groupVars, layoutVars>>

MemoNext ==
    \/ MApply
    \/ \E w \in Workers : \E b \in 1..Len(sPhys) : \E args \in ArgLists(sPhys[b]) :
       \E session \in SessionsFor(sPhys[b]) : \E triggered \in MemoTriggered :
           SStart(w, b, args, session, "value", triggered)
    \/ \E w \in Workers : SStep(w, "value")

\* what the handler of the request e returns for the arguments and the
\* triggering reference of e when it is called without _pack_outputs
Unmemoized(e) ==
    HandlerResult(sPhys[e.b], InnerArgs(sPhys[e.b].f, e.args), e.triggered, "value", 0)

\* C20: every request to a binding wrapped with memoize ends as the call of
\* its handler without memoize would: with the same outcome and, when it
\* returns, the same outputs for the request's arguments and triggering
\* reference
C20_MemoizeTransparent ==
    \A k \in 1..Len(sLog) :
        sPhys[sLog[k].b].f.memoize =>
            /\ sLog[k].outcome = Unmemoized(sLog[k]).outcome
            /\ sLog[k].outcome = "return" => sLog[k].value = Unmemoized(sLog[k]).value

(***************************************************************************)
(* Specifications.  Each one starts the part of the program it is about    *)
(* and leaves the other parts at rest.                                     *)
(***************************************************************************)

\* two references are given to _create_callback_id
CodecInit ==
    /\ cRef1 \in CodecRefs
    /\ cRef2 \in CodecRefs
    /\ cKey1 = <<>>
    /\ cKey2 = <<>>
    /\ cDone = FALSE
    /\ tDecl = <<>>
    /\ tCb = NoCallback
    /\ tPc = "done"
    /\ tArgs = <<>>
    /\ tInner = <<>>
    /\ gCallbacks = <<>>
    /\ gPhys = <<>>
    /\ gPc = "done"
    /\ gInv = NoInvocation
    /\ sCallbacks = <<>>
    /\ sPhys = <<>>
    /\ sPc = "done"
    /\ sFiles = <<>>
    /\ sNow = 1
    /\ sWorkers = [w \in Workers |-> IdleWorker]
    /\ sLog = <<>>
    /\ sRead = NoRead
    /\ sExecs = 0
    /\ sEvents = 0
    /\ sLastSet = <<>>
    /\ sStarted = 0
    /\ sCall = NoCall
    /\ lTree = Node(NoId, <<>>)
    /\ lMode = "static"
    /\ lTransforms = <<>>
    /\ lHiddenDivs = <<>>
    /\ lRenders = 0
    /\ lFirst = Node(NoId, <<>>)
    /\ lLast = Node(NoId, <<>>)
    /\ lPc = "done"

SpecCodec == CodecInit /\ [][CodecNext]_vars

\* a declaration is given to DashProxy.callback behind TriggerTransform
TriggerInit ==
    /\ cRef1 = Ref(StrId(<<"a">>), <<"v">>)
    /\ cRef2 = Ref(StrId(<<"a">>), <<"v">>)
    /\ cKey1 = <<>>
    /\ cKey2 = <<>>
    /\ cDone = TRUE
    /\ tDecl \in Declarations
    /\ tCb = NoCallback
    /\ tPc = "declare"
    /\ tArgs = <<>>
    /\ tInner = <<>>
    /\ gCallbacks = <<>>
    /\ gPhys = <<>>
    /\ gPc = "done"
    /\ gInv = NoInvocation
    /\ sCallbacks = <<>>
    /\ sPhys = <<>>
    /\ sPc = "done"
    /\ sFiles = <<>>
    /\ sNow = 1
    /\ sWorkers = [w \in Workers |-> IdleWorker]
    /\ sLog = <<>>
    /\ sRead = NoRead
    /\ sExecs = 0
    /\ sEvents = 0
    /\ sLastSet = <<>>
    /\ sStarted = 0
    /\ sCall = NoCall
    /\ lTree = Node(NoId, <<>>)
    /\ lMode = "static"
    /\ lTransforms = <<>>
    /\ lHiddenDivs = <<>>
    /\ lRenders = 0
    /\ lFirst = Node(NoId, <<>>)
    /\ lLast = Node(NoId, <<>>)
    /\ lPc = "done"

SpecTrigger == TriggerInit /\ [][TriggerNext]_vars

\* bindings are declared behind GroupTransform
GroupInit ==
    /\ cRef1 = Ref(StrId(<<"a">>), <<"v">>)
    /\ cRef2 = Ref(StrId(<<"a">>), <<"v">>)
    /\ cKey1 = <<>>
    /\ cKey2 = <<>>
    /\ cDone = TRUE
    /\ tDecl = <<>>
    /\ tCb = NoCallback
    /\ tPc = "done"
    /\ tArgs = <<>>
    /\ tInner = <<>>
    /\ gCallbacks \in DeclaredLists
    /\ gPhys = <<>>
    /\ gPc = "apply"
    /\ gInv = NoInvocation
    /\ sCallbacks = <<>>
    /\ sPhys = <<>>
    /\ sPc = "done"
    /\ sFiles = <<>>
    /\ sNow = 1
    /\ sWorkers = [w \in Workers |-> IdleWorker]
    /\ sLog = <<>>
    /\ sRead = NoRead
    /\ sExecs = 0
    /\ sEvents = 0
    /\ sLastSet = <<>>
    /\ sStarted = 0
    /\ sCall = NoCall
    /\ lTree = Node(NoId, <<>>)
    /\ lMode = "static"
    /\ lTransforms = <<>>
    /\ lHiddenDivs = <<>>
    /\ lRenders = 0
    /\ lFirst = Node(NoId, <<>>)
    /\ lLast = Node(NoId, <<>>)
    /\ lPc = "done"

SpecGroup == GroupInit /\ [][GroupNext]_vars

\* bindings A and B are declared behind ServersideOutputTransform
CacheInit ==
    /\ cRef1 = Ref(StrId(<<"a">>), <<"v">>)
    /\ cRef2 = Ref(StrId(<<"a">>), <<"v">>)
    /\ cKey1 = <<>>
    /\ cKey2 = <<>>
    /\ cDone = TRUE
    /\ tDecl = <<>>
    /\ tCb = NoCallback
    /\ tPc = "done"
    /\ tArgs = <<>>
    /\ tInner = <<>>
    /\ gCallbacks = <<>>
    /\ gPhys = <<>>
    /\ gPc = "done"
    /\ gInv = NoInvocation
    /\ sCallbacks \in CacheDeclarations
    /\ sPhys = <<>>
    /\ sPc = "apply"
    /\ sFiles = <<>>
    /\ sNow = 1
    /\ sWorkers = [w \in Workers |-> IdleWorker]
    /\ sLog = <<>>
    /\ sRead = NoRead
    /\ sExecs = 0
    /\ sEvents = 0
    /\ sLastSet = <<>>
    /\ sStarted = 0
    /\ sCall = NoCall
    /\ lTree = Node(NoId, <<>>)
    /\ lMode = "static"
    /\ lTransforms = <<>>
    /\ lHiddenDivs = <<>>
    /\ lRenders = 0
    /\ lFirst = Node(NoId, <<>>)
    /\ lLast = Node(NoId, <<>>)
    /\ lPc = "done"

SpecCache == CacheInit /\ [][CacheNext]_vars

\* an empty FileSystemStore
StoreInit ==
    /\ cRef1 = Ref(StrId(<<"a">>), <<"v">>)
    /\ cRef2 = Ref(StrId(<<"a">>), <<"v">>)
    /\ cKey1 = <<>>
    /\ cKey2 = <<>>
    /\ cDone = TRUE
    /\ tDecl = <<>>
    /\ tCb = NoCallback
    /\ tPc = "done"
    /\ tArgs = <<>>
    /\ tInner = <<>>
    /\ gCallbacks = <<>>
    /\ gPhys = <<>>
    /\ gPc = "done"
    /\ gInv = NoInvocation
    /\ sCallbacks = <<>>
    /\ sPhys = <<>>
    /\ sPc = "run"
    /\ sFiles = <<>>
    /\ sNow = 1
    /\ sWorkers = [w \in Workers |-> IdleWorker]
    /\ sLog = <<>>
    /\ sRead = NoRead
    /\ sExecs = 0
    /\ sEvents = 0
    /\ sLastSet = <<>>
    /\ sStarted = 0
    /\ sCall = NoCall
    /\ lTree = Node(NoId, <<>>)
    /\ lMode = "static"
    /\ lTransforms = <<>>
    /\ lHiddenDivs = <<>>
    /\ lRenders = 0
    /\ lFirst = Node(NoId, <<>>)
    /\ lLast = Node(NoId, <<>>)
    /\ lPc = "done"

SpecStore == StoreInit /\ [][StoreNext]_vars

UnwrapInit ==
    /\ cRef1 = Ref(StrId(<<"a">>), <<"v">>)
    /\ cRef2 = Ref(StrId(<<"a">>), <<"v">>)
    /\ cKey1 = <<>>
    /\ cKey2 = <<>>
    /\ cDone = TRUE
    /\ tDecl = <<>>
    /\ tCb = NoCallback
    /\ tPc = "done"
    /\ tArgs = <<>>
    /\ tInner = <<>>
    /\ gCallbacks = <<>>
    /\ gPhys = <<>>
    /\ gPc = "done"
    /\ gInv = NoInvocation
    /\ sCallbacks = <<>>
    /\ sPhys = <<>>
    /\ sPc = "run"
    /\ sFiles = <<>>
    /\ sNow = 1
    /\ sWorkers = [w \in Workers |-> IdleWorker]
    /\ sLog = <<>>
    /\ sRead = NoRead
    /\ sExecs = 0
    /\ sEvents = 0
    /\ sLastSet = <<>>
    /\ sStarted = 0
    /\ sCall = NoCall
    /\ lTree = Node(NoId, <<>>)
    /\ lMode = "static"
    /\ lTransforms = <<>>
    /\ lHiddenDivs = <<>>
    /\ lRenders = 0
    /\ lFirst = Node(NoId, <<>>)
    /\ lLast = Node(NoId, <<>>)
    /\ lPc = "done"

SpecUnwrap == UnwrapInit /\ [][UnwrapNext]_vars

LayoutInit ==
    /\ cRef1 = Ref(StrId(<<"a">>), <<"v">>)
    /\ cRef2 = Ref(StrId(<<"a">>), <<"v">>)
    /\ cKey1 = <<>>
    /\ cKey2 = <<>>
    /\ cDone = TRUE
    /\ tDecl = <<>>
    /\ tCb = NoCallback
    /\ tPc = "done"
    /\ tArgs = <<>>
    /\ tInner = <<>>
    /\ gCallbacks = <<>>
    /\ gPhys = <<>>
    /\ gPc = "done"
    /\ gInv = NoInvocation
    /\ sCallbacks = <<>>
    /\ sPhys = <<>>
    /\ sPc = "done"
    /\ sFiles = <<>>
    /\ sNow = 1
    /\ sWorkers = [w \in Workers |-> IdleWorker]
    /\ sLog = <<>>
    /\ sRead = NoRead
    /\ sExecs = 0
    /\ sEvents = 0
    /\ sLastSet = <<>>
    /\ sStarted = 0
    /\ sCall = NoCall
    /\ lTree \in LayoutTrees
    /\ lMode \in LayoutModes
    /\ lTransforms \in TransformLists
    /\ lHiddenDivs = <<>>
    /\ lRenders = 0
    /\ lFirst = Node(NoId, <<>>)
    /\ lLast = Node(NoId, <<>>)
    /\ lPc = "apply"

SpecLayout == LayoutInit /\ [][LayoutNext]_vars

MemoInit ==
    /\ cRef1 = Ref(StrId(<<"a">>), <<"v">>)
    /\ cRef2 = Ref(StrId(<<"a">>), <<"v">>)
    /\ cKey1 = <<>>
    /\ cKey2 = <<>>
    /\ cDone = TRUE
    /\ tDecl = <<>>
    /\ tCb = NoCallback
    /\ tPc = "done"
    /\ tArgs = <<>>
    /\ tInner = <<>>
    /\ gCallbacks = <<>>
    /\ gPhys = <<>>
    /\ gPc = "done"
    /\ gInv = NoInvocation
    /\ sCallbacks \in MemoDeclarations
    /\ sPhys = <<>>
    /\ sPc = "apply"
    /\ sFiles = <<>>
    /\ sNow = 1
    /\ sWorkers = [w \in Workers |-> IdleWorker]
    /\ sLog = <<>>
    /\ sRead = NoRead
    /\ sExecs = 0
    /\ sEvents = 0
    /\ sLastSet = <<>>
    /\ sStarted = 0
    /\ sCall = NoCall
    /\ lTree = Node(NoId, <<>>)
    /\ lMode = "static"
    /\ lTransforms = <<>>
    /\ lHiddenDivs = <<>>
    /\ lRenders = 0
    /\ lFirst = Node(NoId, <<>>)
    /\ lLast = Node(NoId, <<>>)
    /\ lPc = "done"

SpecMemo == MemoInit /\ [][MemoNext]_vars

====
